---- MODULE Spec2Model ----
(***************************************************************************)
(* Verification model of the SCHOLAR_RISC-V platform software:             *)
(*   - the single-beat AXI4 bus access layer (software/platform/axi4.cpp), *)
(*     simulated backend (signal level) and hardware backend (mapped),     *)
(*   - the polled PTC / CTP mailbox (software/platform/memory.cpp,         *)
(*     software/firmware/common/memory.c) with the platform polling loop,  *)
(*     the echo / repeater firmware and Eprintf.                           *)
(***************************************************************************)
EXTENDS Integers, Naturals, Sequences, FiniteSets, TLC

(***************************************************************************)
(* Program constants (software/defines.h)                                  *)
(***************************************************************************)
SUCCESS == 0
FAILURE == 1
ADDR_NOT_ALIGNED == 2
INVALID_ADDR == 3
NB_BYTES_IN_WORD == 4
INSTR_BYTES == 4

(***************************************************************************)
(* Bounds of the model                                                     *)
(***************************************************************************)
\* longest transfer offered to a bus entry point, in beats
MaxBeats == 3
\* cycles a call may spend waiting on a target that is not ready
MaxStall == 2
\* bus calls made in one run
MaxCalls == 1
\* width in bits given to uword_t (32 in the build; narrowed so that TLC can
\* represent 2^w, wide enough for every byte count of the mailbox)
UWordBits == 12

\* uword_t arithmetic is modulo 2^w
UWordMod == 2 ^ UWordBits

VARIABLES
  \* ---- bus layer ----
  backend,    \* "SIM" (Verilator pins) or "HW" (mapped window): the #ifdef SIM
  gMapped,    \* [port -> BOOLEAN]: gInstrAxiBase / gAxiBase != nullptr
  drv,        \* [port -> caller-driven pins of the DUT]
  tgt,        \* [port -> target-driven pins of the DUT]
  mem,        \* [port -> [word index -> word]]: backing store behind a window
  busPc,      \* position of the caller inside a bus entry point
  call,       \* arguments of the current / last call
  localAddr,  \* localAddr of the write/read loop
  beatIdx,    \* loop index i
  ret,        \* value returned by the last call
  rdBuf,      \* data[] filled by Axi4Read
  cycles,     \* Cycle() calls made by the current call
  awLog,      \* address handshakes completed by the current call (AW or AR)
  wLog,       \* data handshakes completed by the current call (W or R)
  bCount,     \* response handshakes completed by the current call
  nCalls,     \* bus calls made so far
  \* ---- mailbox ----
  shm,        \* the eight words / windows of the PTC and CTP regions
  platPc,     \* position of the platform in run()/main()
  platIn,     \* line read from stdin: [msg, n]
  stdinSize,  \* stdinSize of the polling loop
  ctpSize,    \* ctpSize of the polling loop
  platBuf,    \* buf of the polling loop after a MemRead of the CTP window
  platCnt,    \* static icount of each platform-side Shared* function
  firmware,   \* program the core runs: "echo" or "eprintf"
  corePc,     \* position of the core in its firmware
  coreSize,   \* size returned by the core-side SharedReadReady
  remaining,  \* remaining of the echo chunk loop
  chunk,      \* chunk of the echo chunk loop
  coreBuf,    \* buf of the echo firmware
  epMsg,      \* message being formatted by Eprintf: [msg, count]
  nextMsg,    \* number of the next stdin line
  nextEp,     \* number of the next Eprintf call
  published,  \* per channel, the messages made visible, in order
  consumed,   \* per channel, the payloads read by the consumer, in order
  readyAt,    \* per channel, what the last successful read-ready check saw
  writers,    \* per counter, the actors that have written it
  wrHist,     \* results of the platform's SharedWriteReady checks and core acks
  \* ---- trace parser ----
  spikeFile,  \* the log file: [lines, eofNl]
  rdPos,      \* number of the next line fgets returns
  instrList,  \* the linked list spike->instructions, head first
  parsePc,    \* position inside Parse
  \* ---- comparator ----
  trace,      \* the list run() walks
  cmpPc,      \* position inside main() / run() of simulation_vs_spike.cpp
  instrIdx,   \* instr: index of the node in trace, Len(trace) + 1 for null
  flag,       \* flag of run()
  gSimTime,   \* simulation time, in Tick() steps
  dut,        \* what the comparator can see of the design
  checked,    \* per-instruction checks performed: [idx, res]
  logOut,     \* lines written by LogPrintf
  released,   \* [spike, sim]: FreeSpike / FinalizeSim done
  exitStatus, \* exit status of the process, "none" while it runs
  runCycles,  \* Cycle() calls made by run() after the firmware is loaded
  pcDiverged, \* the design committed an instruction away from the reference
  \* ---- store check ----
  vmIn,       \* a store node and the backing word of the design
  vmOut,      \* result of verify_mem and the values it logged
  \* ---- firmware loader ----
  fwFile,     \* lines of the firmware file
  ldPos,      \* number of the next line fgets returns
  ldPc,       \* position inside LoadFirmware
  nbErrors,   \* nbErrors
  coreReset,  \* the core reset: "asserted" or "released"
  ldOut       \* value returned, and what the call did: writes, failures

busVars == <<backend, gMapped, drv, tgt, mem, busPc, call, localAddr, beatIdx,
             ret, rdBuf, cycles, awLog, wLog, bCount, nCalls>>

mboxVars == <<shm, platPc, platIn, stdinSize, ctpSize, platBuf, platCnt, firmware,
              corePc, coreSize, remaining, chunk, coreBuf, epMsg, nextMsg, nextEp,
              published, consumed, readyAt, writers, wrHist>>

vars == <<backend, gMapped, drv, tgt, mem, busPc, call, localAddr, beatIdx,
          ret, rdBuf, cycles, awLog, wLog, bCount, nCalls,
          shm, platPc, platIn, stdinSize, ctpSize, platBuf, platCnt, firmware,
          corePc, coreSize, remaining, chunk, coreBuf, epMsg, nextMsg, nextEp,
          published, consumed, readyAt, writers, wrHist,
          spikeFile, rdPos, instrList, parsePc,
          trace, cmpPc, instrIdx, flag, gSimTime, dut, checked, logOut, released,
          exitStatus, runCycles, pcDiverged, vmIn, vmOut,
          fwFile, ldPos, ldPc, nbErrors, coreReset, ldOut>>

parserVars == <<spikeFile, rdPos, instrList, parsePc>>

cmpVars == <<trace, cmpPc, instrIdx, flag, gSimTime, dut, checked, logOut, released,
             exitStatus, runCycles, pcDiverged>>

storeVars == <<vmIn, vmOut>>

loadVars == <<fwFile, ldPos, ldPc, nbErrors, coreReset, ldOut>>

simVars == <<parserVars, cmpVars, storeVars, loadVars>>

\* no log is being parsed
InitParserOff ==
  /\ spikeFile = [lines |-> <<>>, eofNl |-> TRUE]
  /\ rdPos = 1
  /\ instrList = <<>>
  /\ parsePc = "off"

\* no comparator run is in progress
InitCmpOff ==
  /\ trace = <<>>
  /\ cmpPc = "off"
  /\ instrIdx = 1
  /\ flag = SUCCESS
  /\ gSimTime = 0
  /\ dut = [alive |-> FALSE]
  /\ checked = <<>>
  /\ logOut = <<>>
  /\ released = [spike |-> "none", sim |-> FALSE]
  /\ exitStatus = "none"
  /\ runCycles = 0
  /\ pcDiverged = FALSE

\* no store is being checked
InitStoreOff ==
  /\ vmIn = [used |-> FALSE]
  /\ vmOut = [done |-> FALSE]

\* no firmware is being loaded
InitLoadOff ==
  /\ fwFile = <<>>
  /\ ldPos = 1
  /\ ldPc = "off"
  /\ nbErrors = 0
  /\ coreReset = "asserted"
  /\ ldOut = [done |-> FALSE]

InitSimOff == InitParserOff /\ InitCmpOff /\ InitStoreOff /\ InitLoadOff

(***************************************************************************)
(* Bus layer: helpers                                                      *)
(***************************************************************************)
Ports == {"instr", "data"}
BusOps == {"InstrAxi4Write", "Axi4Write", "Axi4Read"}

\* the window an entry point drives
PortOf(op) == IF op = "InstrAxi4Write" THEN "instr" ELSE "data"

\* the granule an entry point passes to IsAligned
GranuleOf(op) == IF op = "InstrAxi4Write" THEN INSTR_BYTES ELSE NB_BYTES_IN_WORD

\* axi4.cpp IsAligned with the size test forgotten
IsAlignedAddrOnly(addr, size, granule) == (addr % granule) = 0

\* axi4.cpp IsAligned
IsAligned(addr, size, granule) == ((addr % granule) = 0) /\ ((size % granule) = 0)

\* words of the caller's buffer: data[i]
DataWord(i) == 160 + i

\* words behind each window
MemWords == MaxBeats + 1

\* awsize / arsize encoding driven by the entry point (no XLEN64)
SizeCode(op) == 2

\* wstrb driven by the entry point (no XLEN64)
StrbOf(op) == 15

IdleDrv == [awaddr |-> 0, awburst |-> 0, awsize |-> 0, awlen |-> 0, awvalid |-> 0,
            wdata |-> 0, wstrb |-> 0, wlast |-> 0, wvalid |-> 0, bready |-> 0,
            araddr |-> 0, arburst |-> 0, arsize |-> 0, arlen |-> 0, arvalid |-> 0,
            rready |-> 0]

IdleTgt == [awready |-> 0, wready |-> 0, bvalid |-> 0, arready |-> 0, rvalid |-> 0]

\* outputs the target may present after an edge: any ready/valid pattern on
\* the channels of the transfer in progress
TgtOutputs(op) ==
  IF op = "Axi4Read"
  THEN [awready : {0}, wready : {0}, bvalid : {0}, arready : {0, 1}, rvalid : {0, 1}]
  ELSE [awready : {0, 1}, wready : {0, 1}, bvalid : {0, 1}, arready : {0}, rvalid : {0}]

\* a wait loop may take another turn: the target stalls a call for at most
\* MaxStall cycles, or for ever where the time limit of Tick ends the run
MayStall == cmpPc = "bus" \/ cycles - (Len(awLog) + Len(wLog) + bCount) < MaxStall

NoCall == [op |-> "none", addr |-> 0, size |-> 0, dataNull |-> FALSE]

\* localAddr is not advanced between beats
NextAddrStuck(a, w) == a

\* localAddr += W (uword_t arithmetic)
NextAddr(a, w) == (a + w) % UWordMod

\* a wait loop left without looking at the awaited signal
AcceptedAlways(v) == TRUE

\* the exit test of a wait loop: while (ready == 0) Cycle();
Accepted(v) == v # 0

\* data[i] written twice
CaptureTwice(buf, w) == Append(Append(buf, w), w)

\* data[i] = dut->s_axi_rdata_o
Capture(buf, w) == Append(buf, w)

\* the address-valid pin is left asserted after the address phase
AwDeassertKept(d) == d

\* dut->s_axi_awvalid_i = 0
AwDeassert(d) == [d EXCEPT !.awvalid = 0]

\* dut->s_axi_wvalid_i = 0
WDeassert(d) == [d EXCEPT !.wvalid = 0]

\* dut->s_axi_bready_i = 0
BDeassert(d) == [d EXCEPT !.bready = 0]

(***************************************************************************)
(* One full clock cycle seen from the pins: the handshakes of the edge are *)
(* those whose valid and ready were both high before it; the target then   *)
(* presents new outputs.  A write handshake stores the word at the address *)
(* accepted last; read data is the word at the address accepted last.      *)
(***************************************************************************)
TargetStore(p, m, aw, d) ==
  IF d.wvalid = 1 /\ tgt[p].wready = 1 /\ Len(aw) > 0
     /\ (aw[Len(aw)].addr \div NB_BYTES_IN_WORD) \in 0..(MemWords - 1)
  THEN [m EXCEPT ![p][aw[Len(aw)].addr \div NB_BYTES_IN_WORD] = d.wdata]
  ELSE m

\* word the target presents on rdata: the word at the read address accepted last
RData(p) ==
  IF Len(awLog) > 0 /\ (awLog[Len(awLog)].addr \div NB_BYTES_IN_WORD) \in 0..(MemWords - 1)
  THEN mem[p][awLog[Len(awLog)].addr \div NB_BYTES_IN_WORD]
  ELSE 0

Cycle(p) ==
  LET d == drv[p]
      t == tgt[p]
      awHs == d.awvalid = 1 /\ t.awready = 1
      arHs == d.arvalid = 1 /\ t.arready = 1
      wHs  == d.wvalid = 1 /\ t.wready = 1
      bHs  == d.bready = 1 /\ t.bvalid = 1
      rHs  == d.rready = 1 /\ t.rvalid = 1
      aw2  == IF awHs THEN Append(awLog, [addr |-> d.awaddr, len |-> d.awlen,
                                          burst |-> d.awburst, size |-> d.awsize])
              ELSE IF arHs THEN Append(awLog, [addr |-> d.araddr, len |-> d.arlen,
                                               burst |-> d.arburst, size |-> d.arsize])
              ELSE awLog
  IN /\ cycles' = cycles + 1
     /\ awLog' = aw2
     /\ wLog' = IF wHs THEN Append(wLog, [data |-> d.wdata, strb |-> d.wstrb,
                                           last |-> d.wlast])
                ELSE IF rHs THEN Append(wLog, [data |-> RData(p), strb |-> 0,
                                               last |-> 1])
                ELSE wLog
     /\ bCount' = IF bHs THEN bCount + 1 ELSE bCount
     /\ mem' = TargetStore(p, mem, awLog, d)
     /\ \E o \in TgtOutputs(call.op) : tgt' = [tgt EXCEPT ![p] = o]

(***************************************************************************)
(* Bus layer: entry points                                                 *)
(***************************************************************************)
\* the argument test with the size forgotten
ArgsInvalidNullOnly(dataNull, size) == dataNull

\* data == nullptr || size == 0
ArgsInvalid(dataNull, size) == dataNull \/ size = 0

\* the argument checks without the test of the mapping
EntryCheckNoMap(op, addr, size, dataNull) ==
  IF ArgsInvalid(dataNull, size) THEN FAILURE
  ELSE IF ~IsAligned(addr, size, GranuleOf(op)) THEN ADDR_NOT_ALIGNED
  ELSE SUCCESS

\* the argument checks of an entry point, in the order of the code
EntryCheck(op, addr, size, dataNull) ==
  IF backend = "HW" /\ ~gMapped[PortOf(op)] THEN INVALID_ADDR
  ELSE IF ArgsInvalid(dataNull, size) THEN FAILURE
  ELSE IF ~IsAligned(addr, size, GranuleOf(op)) THEN ADDR_NOT_ALIGNED
  ELSE SUCCESS

\* hardware backend storing each word one place further
HwStoreShifted(m, p, addr, beats) ==
  [m EXCEPT ![p] = [w \in 0..(MemWords - 1) |->
      IF w > addr \div NB_BYTES_IN_WORD /\ w <= (addr \div NB_BYTES_IN_WORD) + beats
      THEN DataWord(w - (addr \div NB_BYTES_IN_WORD) - 1) ELSE m[p][w]]]

\* hardware backend: p[i] = data[i] for the beats of the call
HwStore(m, p, addr, beats) ==
  [m EXCEPT ![p] = [w \in 0..(MemWords - 1) |->
      IF w >= addr \div NB_BYTES_IN_WORD /\ w < (addr \div NB_BYTES_IN_WORD) + beats
      THEN DataWord(w - (addr \div NB_BYTES_IN_WORD)) ELSE m[p][w]]]

\* hardware backend: data[i] = p[i]
HwLoad(m, p, addr, beats) ==
  [i \in 0..(beats - 1) |-> m[p][(addr \div NB_BYTES_IN_WORD) + i]]

\* byte addresses and byte counts offered to the entry points
BusAddrs == {0, 2, NB_BYTES_IN_WORD}

BusSizes == {s \in 0..(NB_BYTES_IN_WORD * MaxBeats) : s % 2 = 0}

BusCallArgs ==
  {a \in [op : BusOps, addr : BusAddrs, size : BusSizes, dataNull : BOOLEAN] :
     a.addr + a.size <= NB_BYTES_IN_WORD * MemWords}

\* the beat loop run once too often
BeatsOfOneMore(op, size) == size \div GranuleOf(op) + 1

\* beats = size / W
BeatsOf(op, size) == size \div GranuleOf(op)

\* entry of InstrAxi4Write / Axi4Write / Axi4Read with arguments a, up to the
\* first beat; the caller makes at most limit calls
BusEnterFrom(a, limit) ==
  LET chk == EntryCheck(a.op, a.addr, a.size, a.dataNull)
      beats == BeatsOf(a.op, a.size)
  IN /\ busPc = "idle"
     /\ nCalls < limit
     /\ nCalls' = nCalls + 1
     /\ call' = a
     /\ IF chk # SUCCESS
        THEN /\ ret' = chk
             /\ busPc' = "done"
             /\ UNCHANGED <<mem, rdBuf, localAddr, beatIdx>>
        ELSE IF backend = "HW"
        THEN /\ ret' = SUCCESS
             /\ busPc' = "done"
             /\ mem' = IF a.op = "Axi4Read" THEN mem
                       ELSE HwStore(mem, PortOf(a.op), a.addr, beats)
             /\ rdBuf' = IF a.op = "Axi4Read"
                         THEN HwLoad(mem, PortOf(a.op), a.addr, beats)
                         ELSE rdBuf
             /\ UNCHANGED <<localAddr, beatIdx>>
        ELSE /\ localAddr' = a.addr % UWordMod
             /\ beatIdx' = 0
             /\ busPc' = IF a.op = "Axi4Read" THEN "ar" ELSE "aw"
             /\ rdBuf' = IF a.op = "Axi4Read" THEN <<>> ELSE rdBuf
             /\ UNCHANGED <<mem, ret>>
     /\ UNCHANGED <<backend, gMapped, drv, tgt, cycles, awLog, wLog, bCount>>

BusEnter(a) == BusEnterFrom(a, MaxCalls)

\* a caller enters an entry point
BusCall == \E a \in BusCallArgs : BusEnter(a)

\* AW phase: drive address and control, raise awvalid
AwAssert ==
  /\ busPc = "aw"
  /\ drv' = [drv EXCEPT ![PortOf(call.op)] =
               [@ EXCEPT !.awaddr = localAddr, !.awburst = 0,
                         !.awsize = SizeCode(call.op), !.awlen = 0, !.awvalid = 1]]
  /\ busPc' = "aw_wait"
  /\ UNCHANGED <<backend, gMapped, tgt, mem, call, localAddr, beatIdx, ret, rdBuf,
                 cycles, awLog, wLog, bCount, nCalls>>

\* while (awready == 0) Cycle();
AwWait ==
  /\ busPc = "aw_wait"
  /\ ~Accepted(tgt[PortOf(call.op)].awready)
  /\ MayStall
  /\ Cycle(PortOf(call.op))
  /\ UNCHANGED <<backend, gMapped, drv, busPc, call, localAddr, beatIdx, ret, rdBuf, nCalls>>

\* Cycle(); awvalid = 0;
AwDone ==
  /\ busPc = "aw_wait"
  /\ Accepted(tgt[PortOf(call.op)].awready)
  /\ Cycle(PortOf(call.op))
  /\ drv' = [drv EXCEPT ![PortOf(call.op)] = AwDeassert(@)]
  /\ busPc' = "w"
  /\ UNCHANGED <<backend, gMapped, call, localAddr, beatIdx, ret, rdBuf, nCalls>>

\* W phase: drive data, strobes, wlast, raise wvalid
WAssert ==
  /\ busPc = "w"
  /\ drv' = [drv EXCEPT ![PortOf(call.op)] =
               [@ EXCEPT !.wdata = DataWord(beatIdx), !.wstrb = StrbOf(call.op),
                         !.wlast = 1, !.wvalid = 1]]
  /\ busPc' = "w_wait"
  /\ UNCHANGED <<backend, gMapped, tgt, mem, call, localAddr, beatIdx, ret, rdBuf,
                 cycles, awLog, wLog, bCount, nCalls>>

\* while (wready == 0) Cycle();
WWait ==
  /\ busPc = "w_wait"
  /\ ~Accepted(tgt[PortOf(call.op)].wready)
  /\ MayStall
  /\ Cycle(PortOf(call.op))
  /\ UNCHANGED <<backend, gMapped, drv, busPc, call, localAddr, beatIdx, ret, rdBuf, nCalls>>

\* Cycle(); wvalid = 0;
WDone ==
  /\ busPc = "w_wait"
  /\ Accepted(tgt[PortOf(call.op)].wready)
  /\ Cycle(PortOf(call.op))
  /\ drv' = [drv EXCEPT ![PortOf(call.op)] = WDeassert(@)]
  /\ busPc' = "b"
  /\ UNCHANGED <<backend, gMapped, call, localAddr, beatIdx, ret, rdBuf, nCalls>>

\* B phase: raise bready
BAssert ==
  /\ busPc = "b"
  /\ drv' = [drv EXCEPT ![PortOf(call.op)] = [@ EXCEPT !.bready = 1]]
  /\ busPc' = "b_wait"
  /\ UNCHANGED <<backend, gMapped, tgt, mem, call, localAddr, beatIdx, ret, rdBuf,
                 cycles, awLog, wLog, bCount, nCalls>>

\* while (bvalid == 0) Cycle();
BWait ==
  /\ busPc = "b_wait"
  /\ ~Accepted(tgt[PortOf(call.op)].bvalid)
  /\ MayStall
  /\ Cycle(PortOf(call.op))
  /\ UNCHANGED <<backend, gMapped, drv, busPc, call, localAddr, beatIdx, ret, rdBuf, nCalls>>

\* Cycle(); bready = 0; localAddr += W; next beat or return SUCCESS
BDone ==
  /\ busPc = "b_wait"
  /\ Accepted(tgt[PortOf(call.op)].bvalid)
  /\ Cycle(PortOf(call.op))
  /\ drv' = [drv EXCEPT ![PortOf(call.op)] = BDeassert(@)]
  /\ localAddr' = NextAddr(localAddr, GranuleOf(call.op))
  /\ beatIdx' = beatIdx + 1
  /\ IF beatIdx + 1 < BeatsOf(call.op, call.size)
     THEN busPc' = "aw" /\ ret' = ret
     ELSE busPc' = "done" /\ ret' = SUCCESS
  /\ UNCHANGED <<backend, gMapped, call, rdBuf, nCalls>>

\* AR phase: drive address and control, raise arvalid
ArAssert ==
  /\ busPc = "ar"
  /\ drv' = [drv EXCEPT ![PortOf(call.op)] =
               [@ EXCEPT !.araddr = localAddr, !.arburst = 0,
                         !.arsize = SizeCode(call.op), !.arlen = 0, !.arvalid = 1]]
  /\ busPc' = "ar_wait"
  /\ UNCHANGED <<backend, gMapped, tgt, mem, call, localAddr, beatIdx, ret, rdBuf,
                 cycles, awLog, wLog, bCount, nCalls>>

\* while (arready == 0) Cycle();
ArWait ==
  /\ busPc = "ar_wait"
  /\ ~Accepted(tgt[PortOf(call.op)].arready)
  /\ MayStall
  /\ Cycle(PortOf(call.op))
  /\ UNCHANGED <<backend, gMapped, drv, busPc, call, localAddr, beatIdx, ret, rdBuf, nCalls>>

\* Cycle(); arvalid = 0;
ArDone ==
  /\ busPc = "ar_wait"
  /\ Accepted(tgt[PortOf(call.op)].arready)
  /\ Cycle(PortOf(call.op))
  /\ drv' = [drv EXCEPT ![PortOf(call.op)] = [@ EXCEPT !.arvalid = 0]]
  /\ busPc' = "r"
  /\ UNCHANGED <<backend, gMapped, call, localAddr, beatIdx, ret, rdBuf, nCalls>>

\* R phase: raise rready
RAssert ==
  /\ busPc = "r"
  /\ drv' = [drv EXCEPT ![PortOf(call.op)] = [@ EXCEPT !.rready = 1]]
  /\ busPc' = "r_wait"
  /\ UNCHANGED <<backend, gMapped, tgt, mem, call, localAddr, beatIdx, ret, rdBuf,
                 cycles, awLog, wLog, bCount, nCalls>>

\* while (rvalid == 0) Cycle();
RWait ==
  /\ busPc = "r_wait"
  /\ ~Accepted(tgt[PortOf(call.op)].rvalid)
  /\ MayStall
  /\ Cycle(PortOf(call.op))
  /\ UNCHANGED <<backend, gMapped, drv, busPc, call, localAddr, beatIdx, ret, rdBuf, nCalls>>

\* data[i] = rdata; Cycle(); rready = 0; localAddr += W; next beat or return
RDone ==
  /\ busPc = "r_wait"
  /\ Accepted(tgt[PortOf(call.op)].rvalid)
  /\ rdBuf' = Capture(rdBuf, RData(PortOf(call.op)))
  /\ Cycle(PortOf(call.op))
  /\ drv' = [drv EXCEPT ![PortOf(call.op)] = [@ EXCEPT !.rready = 0]]
  /\ localAddr' = NextAddr(localAddr, GranuleOf(call.op))
  /\ beatIdx' = beatIdx + 1
  /\ IF beatIdx + 1 < BeatsOf(call.op, call.size)
     THEN busPc' = "ar" /\ ret' = ret
     ELSE busPc' = "done" /\ ret' = SUCCESS
  /\ UNCHANGED <<backend, gMapped, call, nCalls>>

\* the entry point has returned; the caller is ready for its next call
BusReturn ==
  /\ busPc = "done"
  /\ busPc' = "idle"
  /\ cycles' = 0
  /\ awLog' = <<>>
  /\ wLog' = <<>>
  /\ bCount' = 0
  /\ UNCHANGED <<backend, gMapped, drv, tgt, mem, call, localAddr, beatIdx, ret, rdBuf, nCalls>>

\* SetupInstrAxi4 / SetupAxi4 on the hardware backend; open or mmap may fail
SetupAxi(p) ==
  /\ backend = "HW"
  /\ busPc = "idle"
  /\ \E ok \in BOOLEAN : gMapped' = IF ok THEN [gMapped EXCEPT ![p] = TRUE] ELSE gMapped
  /\ UNCHANGED <<backend, drv, tgt, mem, busPc, call, localAddr, beatIdx, ret, rdBuf,
                 cycles, awLog, wLog, bCount, nCalls>>

\* FinalizeInstrAxi4 / FinalizeAxi4
FinalizeAxi(p) ==
  /\ backend = "HW"
  /\ busPc = "idle"
  /\ gMapped[p]
  /\ gMapped' = [gMapped EXCEPT ![p] = FALSE]
  /\ UNCHANGED <<backend, drv, tgt, mem, busPc, call, localAddr, beatIdx, ret, rdBuf,
                 cycles, awLog, wLog, bCount, nCalls>>

InitBus ==
  /\ backend \in {"SIM", "HW"}
  /\ gMapped = [p \in Ports |-> FALSE]
  /\ drv = [p \in Ports |-> IdleDrv]
  /\ tgt = [p \in Ports |-> IdleTgt]
  /\ mem = [p \in Ports |-> [w \in 0..(MemWords - 1) |-> 0]]
  /\ busPc = "idle"
  /\ call = NoCall
  /\ localAddr = 0
  /\ beatIdx = 0
  /\ ret = SUCCESS
  /\ rdBuf = <<>>
  /\ cycles = 0
  /\ awLog = <<>>
  /\ wLog = <<>>
  /\ bCount = 0
  /\ nCalls = 0

\* steps of an entry point of the simulated backend
BusSimStep ==
  \/ AwAssert \/ AwWait \/ AwDone
  \/ WAssert \/ WWait \/ WDone
  \/ BAssert \/ BWait \/ BDone
  \/ ArAssert \/ ArWait \/ ArDone
  \/ RAssert \/ RWait \/ RDone
  \/ BusReturn

BusStep ==
  \/ BusCall
  \/ BusSimStep
  \/ \E p \in Ports : SetupAxi(p)
  \/ \E p \in Ports : FinalizeAxi(p)

(***************************************************************************)
(* Helper layer of memory.cpp over the entry points                        *)
(***************************************************************************)
HelperOps == {"InstrMemWrite", "MemWrite", "MemRead"}

\* the entry point a helper delegates to
HelperBusOp(h) ==
  CASE h = "InstrMemWrite" -> "InstrAxi4Write"
    [] h = "MemWrite" -> "Axi4Write"
    [] h = "MemRead" -> "Axi4Read"

\* alignedSize = (size + (g - 1)) & ~(g - 1)
AlignedSize(size, g) == (((size + (g - 1)) % UWordMod) \div g) * g

\* byte counts asked of the helpers
HelperSizes == {0, 1, NB_BYTES_IN_WORD, NB_BYTES_IN_WORD + 1}

\* InstrMemWrite / MemWrite / MemRead: the size is rounded up to words and
\* the call handed to the entry point; req is the size the caller asked for
HelperCall ==
  \E h \in HelperOps, ad \in BusAddrs, sz \in HelperSizes, dn \in BOOLEAN :
    /\ ad + AlignedSize(sz, GranuleOf(HelperBusOp(h))) <= NB_BYTES_IN_WORD * MemWords
    /\ BusEnter([op |-> HelperBusOp(h), addr |-> ad,
                 size |-> AlignedSize(sz, GranuleOf(HelperBusOp(h))),
                 dataNull |-> dn, helper |-> h, req |-> sz])

HelperStep ==
  \/ HelperCall
  \/ BusStep

(***************************************************************************)
(* Mailbox: bounds and inputs                                              *)
(***************************************************************************)
\* lines typed on stdin, and Eprintf calls made by the firmware, in one run
MaxMsgs == 2

\* byte counts read() returns for a line (at most sizeof(buf) - 1)
StdinLens == {1, 5, 600, 1023}

\* character counts Eprintf formats (an empty format string gives 0)
EprintfLens == {0, 1, 33}

\* sizeof(buf) of the echo firmware: 128 words
ECHO_BUF_BYTES == 128 * NB_BYTES_IN_WORD

\* size of each shared region, and of its data window after the two counters
\* and the size field
SHARED_RAM_SIZE == 1024
WindowCapacity == SHARED_RAM_SIZE - 3 * NB_BYTES_IN_WORD

Channels == {"ptc", "ctp"}
Counters == {"PTC_PLATFORM_COUNT", "PTC_CORE_COUNT", "CTP_PLATFORM_COUNT", "CTP_CORE_COUNT"}
ShmWords == Counters \cup {"PTC_DATA_SIZE", "PTC_DATA", "CTP_DATA_SIZE", "CTP_DATA"}

\* the counters live in the region their name starts with
RegionOf(c) == IF c \in {"PTC_PLATFORM_COUNT", "PTC_CORE_COUNT"} THEN "ptc" ELSE "ctp"

NoData == [msg |-> 0, len |-> 0]
NoSize == [msg |-> 0, bytes |-> 0]

ZeroShm ==
  [w \in ShmWords |->
     IF w \in Counters THEN 0
     ELSE IF w \in {"PTC_DATA", "CTP_DATA"} THEN NoData ELSE NoSize]

\* platform.cpp AlignUp, and the rounding of MemWrite / MemRead
AlignUp(x, a) == ((x + (a - 1)) \div a) * a

\* uword_t increment
Inc(c) == (c + 1) % UWordMod

\* a check that reports ready leaves the local token where it was
TokenKept(c) == c

\* SharedWriteReady (platform): icount++ when the check reports ready
TakeToken(c) == Inc(c)

\* counter the platform's SharedReadAck would write if it acknowledged in the
\* region it reads from
PlatReadAckAddrInCtp == "CTP_PLATFORM_COUNT"

\* counter written by the platform's SharedReadAck
PlatReadAckAddr == "PTC_CORE_COUNT"

\* counter written by the platform's SharedWriteAck
PlatWriteAckAddr == "PTC_PLATFORM_COUNT"

\* counter written by the core's SharedReadAck
CoreReadAckAddr == "CTP_PLATFORM_COUNT"

\* counter written by the core's SharedWriteAck
CoreWriteAckAddr == "CTP_CORE_COUNT"

\* a publish that signals before the size is written
PublishOrderAckEarly(pc) ==
  CASE pc = "send_data" -> "send_ack"
    [] pc = "send_ack" -> "send_size"
    [] pc = "send_size" -> "poll"

\* order of the three steps of the platform's publish path
PublishOrder(pc) ==
  CASE pc = "send_data" -> "send_size"
    [] pc = "send_size" -> "send_ack"
    [] pc = "send_ack" -> "poll"

\* the test of the platform's SharedReadReady: count > icount
PlatReadPending(w, icount) == w["CTP_CORE_COUNT"] > icount

\* the test of the core's SharedReadReady: *ptc_plat_cnt > *ctp_plat_cnt
CoreReadPending(w) == w["PTC_PLATFORM_COUNT"] > w["CTP_PLATFORM_COUNT"]

\* record that actor a wrote the counters cs
Wrote(w, cs, a) == [c \in Counters |-> IF c \in cs THEN w[c] \cup {a} ELSE w[c]]

platLocals == <<platPc, platIn, stdinSize, ctpSize, platBuf, platCnt, nextMsg>>
coreLocals == <<corePc, coreSize, remaining, chunk, coreBuf, epMsg, nextEp>>

(***************************************************************************)
(* Platform: run() / main() of platform.cpp.  One action per Mem* / Shared* *)
(* call of the polling loop.                                               *)
(***************************************************************************)
\* start-up: (hardware) map the windows and clear the PTC region, then load
\* the firmware, which releases the core reset
PlatBoot ==
  /\ platPc = "boot"
  /\ platPc' = "poll"
  /\ corePc' = "reset"
  /\ IF backend = "HW"
     THEN /\ shm' = [w \in ShmWords |-> IF w \in {"PTC_PLATFORM_COUNT", "PTC_CORE_COUNT",
                                                    "PTC_DATA_SIZE", "PTC_DATA"}
                                         THEN ZeroShm[w] ELSE shm[w]]
          /\ writers' = Wrote(writers, {"PTC_PLATFORM_COUNT", "PTC_CORE_COUNT"}, "platform")
     ELSE UNCHANGED <<shm, writers>>
  /\ UNCHANGED <<platIn, stdinSize, ctpSize, platBuf, platCnt, nextMsg,
                 coreSize, remaining, chunk, coreBuf, epMsg, nextEp,
                 published, consumed, readyAt>>

\* select() reports stdin readable and read() returns a line of n bytes
PlatStdin ==
  /\ platPc = "poll"
  /\ nextMsg <= MaxMsgs
  /\ \E n \in StdinLens :
       /\ platIn' = [msg |-> nextMsg, n |-> n]
       /\ stdinSize' = AlignUp(n, 4)
  /\ nextMsg' = nextMsg + 1
  /\ platPc' = "send_data"
  /\ UNCHANGED <<ctpSize, platBuf, platCnt, shm, published, consumed, readyAt, writers>>
  /\ UNCHANGED coreLocals

\* read() returns EOF, or the line is 'q': leave the loop
PlatQuit ==
  /\ platPc = "poll"
  /\ platPc' = "exit"
  /\ UNCHANGED <<platIn, stdinSize, ctpSize, platBuf, platCnt, nextMsg, shm, published,
                 consumed, readyAt, writers>>
  /\ UNCHANGED coreLocals

\* MemWrite(PTC_RAM_DATA_ADDR, buf, stdinSize)
PlatSendData ==
  /\ platPc = "send_data"
  /\ shm' = [shm EXCEPT !["PTC_DATA"] =
               [msg |-> platIn.msg, len |-> AlignUp(stdinSize, NB_BYTES_IN_WORD)]]
  /\ platPc' = PublishOrder(platPc)
  /\ UNCHANGED <<platIn, stdinSize, ctpSize, platBuf, platCnt, nextMsg, published,
                 consumed, readyAt, writers>>
  /\ UNCHANGED coreLocals

\* MemWrite(PTC_RAM_DATA_SIZE_ADDR, &stdinSize, NB_BYTES_IN_WORD)
PlatSendSize ==
  /\ platPc = "send_size"
  /\ shm' = [shm EXCEPT !["PTC_DATA_SIZE"] = [msg |-> platIn.msg, bytes |-> stdinSize]]
  /\ platPc' = PublishOrder(platPc)
  /\ UNCHANGED <<platIn, stdinSize, ctpSize, platBuf, platCnt, nextMsg, published,
                 consumed, readyAt, writers>>
  /\ UNCHANGED coreLocals

\* SharedWriteAck(): icount++; MemWrite(PTC_RAM_PLATFORM_COUNT_ADDR, &icount)
PlatSendAck ==
  /\ platPc = "send_ack"
  /\ platCnt' = [platCnt EXCEPT !.writeAck = Inc(@)]
  /\ shm' = [shm EXCEPT ![PlatWriteAckAddr] = Inc(platCnt.writeAck)]
  /\ writers' = Wrote(writers, {PlatWriteAckAddr}, "platform")
  /\ published' = [published EXCEPT !["ptc"] = Append(@, platIn.msg)]
  /\ platPc' = PublishOrder(platPc)
  /\ UNCHANGED <<platIn, stdinSize, ctpSize, platBuf, nextMsg, consumed, readyAt>>
  /\ UNCHANGED coreLocals

\* ctpSize = SharedReadReady(): compare CTP CORE_COUNT with the local icount;
\* when ahead, icount++ and return the size field
PlatReadReady ==
  /\ platPc = "poll"
  /\ IF PlatReadPending(shm, platCnt.readReady)
     THEN /\ platCnt' = [platCnt EXCEPT !.readReady = Inc(@)]
          /\ ctpSize' = shm["CTP_DATA_SIZE"].bytes
          /\ readyAt' = IF shm["CTP_DATA_SIZE"].bytes # 0
                        THEN [readyAt EXCEPT !["ctp"] =
                                [size |-> shm["CTP_DATA_SIZE"].msg,
                                 pub |-> Len(published["ctp"]), data |-> 0]]
                        ELSE readyAt
          /\ platPc' = IF shm["CTP_DATA_SIZE"].bytes # 0 THEN "recv_data" ELSE "poll"
     ELSE /\ ctpSize' = 0
          /\ UNCHANGED <<platCnt, readyAt, platPc>>
  /\ UNCHANGED <<platIn, stdinSize, platBuf, nextMsg, shm, published, consumed, writers>>
  /\ UNCHANGED coreLocals

\* MemRead(CTP_RAM_DATA_ADDR, buf, ctpSize)
PlatRecvData ==
  /\ platPc = "recv_data"
  /\ platBuf' = [msg |-> shm["CTP_DATA"].msg, len |-> AlignUp(ctpSize, NB_BYTES_IN_WORD)]
  /\ consumed' = [consumed EXCEPT !["ctp"] = Append(@, shm["CTP_DATA"].msg)]
  /\ readyAt' = [readyAt EXCEPT !["ctp"].data = shm["CTP_DATA"].msg]
  /\ platPc' = "recv_ack"
  /\ UNCHANGED <<platIn, stdinSize, ctpSize, platCnt, nextMsg, shm, published, writers>>
  /\ UNCHANGED coreLocals

\* SharedReadAck(): icount++; MemWrite(PTC_RAM_CORE_COUNT_ADDR, &icount)
PlatRecvAck ==
  /\ platPc = "recv_ack"
  /\ platCnt' = [platCnt EXCEPT !.readAck = Inc(@)]
  /\ shm' = [shm EXCEPT ![PlatReadAckAddr] = Inc(platCnt.readAck)]
  /\ writers' = Wrote(writers, {PlatReadAckAddr}, "platform")
  /\ platPc' = "poll"
  /\ UNCHANGED <<platIn, stdinSize, ctpSize, platBuf, nextMsg, published, consumed, readyAt>>
  /\ UNCHANGED coreLocals

(***************************************************************************)
(* Core: firmware/echo/main.c                                              *)
(***************************************************************************)
\* MemReset(CTP_RAM_START_ADDR, CTP_RAM_SIZE, 0) at the start of main()
CoreReset ==
  /\ corePc = "reset"
  /\ shm' = [w \in ShmWords |-> IF w \in {"CTP_PLATFORM_COUNT", "CTP_CORE_COUNT",
                                         "CTP_DATA_SIZE", "CTP_DATA"}
                              THEN ZeroShm[w] ELSE shm[w]]
  /\ writers' = Wrote(writers, {"CTP_PLATFORM_COUNT", "CTP_CORE_COUNT"}, "core")
  /\ corePc' = IF firmware = "echo" THEN "wait" ELSE "ep_idle"
  /\ UNCHANGED <<coreSize, remaining, chunk, coreBuf, epMsg, nextEp, published, consumed,
                 readyAt>>
  /\ UNCHANGED platLocals

\* size = SharedReadReady(): PTC PLATFORM_COUNT ahead of CTP PLATFORM_COUNT
\* returns the size field; a non-zero size leaves the wait loop
EchoReadReady ==
  /\ corePc = "wait"
  /\ CoreReadPending(shm)
  /\ shm["PTC_DATA_SIZE"].bytes # 0
  /\ coreSize' = shm["PTC_DATA_SIZE"].bytes
  /\ remaining' = shm["PTC_DATA_SIZE"].bytes
  /\ readyAt' = [readyAt EXCEPT !["ptc"] =
                   [size |-> shm["PTC_DATA_SIZE"].msg, pub |-> Len(published["ptc"]),
                    data |-> 0]]
  /\ corePc' = "rd_data"
  /\ UNCHANGED <<chunk, coreBuf, epMsg, nextEp, shm, published, consumed, writers>>
  /\ UNCHANGED platLocals

\* chunk = min(remaining, sizeof(buf)); MemRead(PTC_RAM_DATA_ADDR, buf, alignedChunk)
EchoReadData ==
  /\ corePc = "rd_data"
  /\ LET c == IF remaining > ECHO_BUF_BYTES THEN ECHO_BUF_BYTES ELSE remaining
     IN /\ chunk' = c
        /\ coreBuf' = [msg |-> shm["PTC_DATA"].msg, len |-> AlignUp(c, NB_BYTES_IN_WORD)]
  /\ consumed' = [consumed EXCEPT !["ptc"] = Append(@, shm["PTC_DATA"].msg)]
  /\ readyAt' = [readyAt EXCEPT !["ptc"].data = shm["PTC_DATA"].msg]
  /\ corePc' = "rd_ack"
  /\ UNCHANGED <<coreSize, remaining, epMsg, nextEp, shm, published, writers>>
  /\ UNCHANGED platLocals

\* SharedReadAck(): *ctp_plat_cnt = *ctp_plat_cnt + 1
EchoReadAck ==
  /\ corePc = "rd_ack"
  /\ shm' = [shm EXCEPT ![CoreReadAckAddr] = Inc(@)]
  /\ writers' = Wrote(writers, {CoreReadAckAddr}, "core")
  /\ corePc' = "wr_data"
  /\ UNCHANGED <<coreSize, remaining, chunk, coreBuf, epMsg, nextEp, published, consumed,
                 readyAt>>
  /\ UNCHANGED platLocals

\* MemWrite(CTP_RAM_DATA_ADDR, buf, alignedChunk)
EchoWriteData ==
  /\ corePc = "wr_data"
  /\ shm' = [shm EXCEPT !["CTP_DATA"] =
               [msg |-> Len(published["ctp"]) + 1, len |-> coreBuf.len]]
  /\ corePc' = "wr_size"
  /\ UNCHANGED <<coreSize, remaining, chunk, coreBuf, epMsg, nextEp, published, consumed,
                 readyAt, writers>>
  /\ UNCHANGED platLocals

\* MemWrite(CTP_RAM_DATA_SIZE_ADDR, &alignedChunk, NB_BYTES_IN_WORD)
EchoWriteSize ==
  /\ corePc = "wr_size"
  /\ shm' = [shm EXCEPT !["CTP_DATA_SIZE"] =
               [msg |-> Len(published["ctp"]) + 1, bytes |-> coreBuf.len]]
  /\ corePc' = "wr_ack"
  /\ UNCHANGED <<coreSize, remaining, chunk, coreBuf, epMsg, nextEp, published, consumed,
                 readyAt, writers>>
  /\ UNCHANGED platLocals

\* SharedWriteAck(); remaining -= chunk; next chunk or back to the wait loop
EchoWriteAck ==
  /\ corePc = "wr_ack"
  /\ shm' = [shm EXCEPT ![CoreWriteAckAddr] = Inc(@)]
  /\ writers' = Wrote(writers, {CoreWriteAckAddr}, "core")
  /\ published' = [published EXCEPT !["ctp"] = Append(@, Len(@) + 1)]
  /\ remaining' = remaining - chunk
  /\ corePc' = IF remaining - chunk > 0 THEN "rd_data" ELSE "wait"
  /\ UNCHANGED <<coreSize, chunk, coreBuf, epMsg, nextEp, consumed, readyAt>>
  /\ UNCHANGED platLocals

(***************************************************************************)
(* Core: a firmware that prints with Eprintf (firmware/loader/main.c,      *)
(* firmware/common/eprintf.c)                                              *)
(***************************************************************************)
\* Eprintf(fmt, ...) is called with a text of count characters
EpCall ==
  /\ corePc = "ep_idle"
  /\ nextEp <= MaxMsgs
  /\ \E n \in EprintfLens : epMsg' = [msg |-> nextEp, count |-> n]
  /\ nextEp' = nextEp + 1
  /\ corePc' = "ep_spin"
  /\ UNCHANGED <<coreSize, remaining, chunk, coreBuf, shm, published, consumed, readyAt,
                 writers>>
  /\ UNCHANGED platLocals

\* while (!SharedWriteReady()) {}: CTP CORE_COUNT == PTC CORE_COUNT ends the spin
EpWriteReady ==
  /\ corePc = "ep_spin"
  /\ shm["CTP_CORE_COUNT"] = shm["PTC_CORE_COUNT"]
  /\ corePc' = "ep_fmt"
  /\ UNCHANGED <<coreSize, remaining, chunk, coreBuf, epMsg, nextEp, shm, published,
                 consumed, readyAt, writers>>
  /\ UNCHANGED platLocals

\* the format loop: count characters and the final NUL go to the CTP window
EpFormat ==
  /\ corePc = "ep_fmt"
  /\ shm' = [shm EXCEPT !["CTP_DATA"] = [msg |-> epMsg.msg, len |-> epMsg.count]]
  /\ corePc' = "ep_size"
  /\ UNCHANGED <<coreSize, remaining, chunk, coreBuf, epMsg, nextEp, published, consumed,
                 readyAt, writers>>
  /\ UNCHANGED platLocals

\* *sizep = count
EpSize ==
  /\ corePc = "ep_size"
  /\ shm' = [shm EXCEPT !["CTP_DATA_SIZE"] = [msg |-> epMsg.msg, bytes |-> epMsg.count]]
  /\ corePc' = "ep_ack"
  /\ UNCHANGED <<coreSize, remaining, chunk, coreBuf, epMsg, nextEp, published, consumed,
                 readyAt, writers>>
  /\ UNCHANGED platLocals

\* SharedWriteAck(); return count
EpAck ==
  /\ corePc = "ep_ack"
  /\ shm' = [shm EXCEPT ![CoreWriteAckAddr] = Inc(@)]
  /\ writers' = Wrote(writers, {CoreWriteAckAddr}, "core")
  /\ published' = [published EXCEPT !["ctp"] = Append(@, epMsg.msg)]
  /\ corePc' = "ep_idle"
  /\ UNCHANGED <<coreSize, remaining, chunk, coreBuf, epMsg, nextEp, consumed, readyAt>>
  /\ UNCHANGED platLocals

(***************************************************************************)
(* The platform-side SharedWriteReady, called by a client of memory.h,     *)
(* against the core's acknowledges                                         *)
(***************************************************************************)
\* checks and acknowledges recorded in one run
MaxHist == 5

\* SharedWriteReady(): read CTP PLATFORM_COUNT; equal to icount: icount++, 1
ApiWriteReady ==
  /\ Len(wrHist) < MaxHist
  /\ IF platCnt.writeReady = shm["CTP_PLATFORM_COUNT"]
     THEN /\ platCnt' = [platCnt EXCEPT !.writeReady = TakeToken(@)]
          /\ wrHist' = Append(wrHist, "ready")
     ELSE /\ platCnt' = platCnt
          /\ wrHist' = Append(wrHist, "busy")
  /\ UNCHANGED <<shm, writers>>

\* the core's SharedReadAck(): CTP PLATFORM_COUNT + 1
ApiCoreReadAck ==
  /\ Len(wrHist) < MaxHist
  /\ shm' = [shm EXCEPT ![CoreReadAckAddr] = Inc(@)]
  /\ writers' = Wrote(writers, {CoreReadAckAddr}, "core")
  /\ wrHist' = Append(wrHist, "ack")
  /\ UNCHANGED platCnt

(***************************************************************************)
(* Specifications of the mailbox                                           *)
(***************************************************************************)
ZeroCnt == [writeReady |-> 0, readReady |-> 0, readAck |-> 0, writeAck |-> 0]

InitMailboxCommon ==
  /\ platIn = [msg |-> 0, n |-> 0]
  /\ stdinSize = 0
  /\ ctpSize = 0
  /\ platBuf = NoData
  /\ coreSize = 0
  /\ remaining = 0
  /\ chunk = 0
  /\ coreBuf = NoData
  /\ epMsg = [msg |-> 0, count |-> 0]
  /\ nextMsg = 1
  /\ nextEp = 1
  /\ published = [c \in Channels |-> <<>>]
  /\ consumed = [c \in Channels |-> <<>>]
  /\ readyAt = [c \in Channels |-> [size |-> 0, pub |-> 0, data |-> 0]]
  /\ writers = [c \in Counters |-> {}]
  /\ wrHist = <<>>

\* the mailbox is not in use
InitMailboxOff ==
  /\ InitMailboxCommon
  /\ shm = ZeroShm
  /\ platCnt = ZeroCnt
  /\ platPc = "off"
  /\ corePc = "off"
  /\ firmware = "none"

\* the platform process starts; the RAMs come out of reset
InitMailbox ==
  /\ InitMailboxCommon
  /\ shm = ZeroShm
  /\ platCnt = ZeroCnt
  /\ platPc = "boot"
  /\ corePc = "off"
  /\ firmware \in {"echo", "eprintf"}

PlatformStep ==
  \/ PlatBoot
  \/ PlatStdin
  \/ PlatSendData
  \/ PlatSendSize
  \/ PlatSendAck
  \/ PlatReadReady
  \/ PlatRecvData
  \/ PlatRecvAck

EchoStep ==
  \/ EchoReadReady
  \/ EchoReadData
  \/ EchoReadAck
  \/ EchoWriteData
  \/ EchoWriteSize
  \/ EchoWriteAck

EprintfStep ==
  \/ EpCall
  \/ EpWriteReady
  \/ EpFormat
  \/ EpSize
  \/ EpAck

mboxFrame == <<backend, gMapped, drv, tgt, mem, busPc, call, localAddr, beatIdx,
               ret, rdBuf, cycles, awLog, wLog, bCount, nCalls, firmware>>

\* what no step of the mailbox changes
mboxHeld == UNCHANGED mboxFrame /\ UNCHANGED wrHist /\ UNCHANGED simVars

NextMailbox ==
  /\ \/ PlatformStep
     \/ PlatQuit
     \/ CoreReset
     \/ EchoStep
     \/ EprintfStep
  /\ mboxHeld

\* platform polling loop and firmware, any interleaving
InitPlatform == InitBus /\ InitMailbox /\ InitSimOff

SpecMailbox == InitPlatform /\ [][NextMailbox]_vars

\* a session in which every counter has reached c: the platform polls, the
\* echo firmware waits, every message so far was echoed and acknowledged
InitWrap ==
  /\ InitBus /\ InitSimOff
  /\ InitMailboxCommon
  /\ LET c == UWordMod - 2
     IN /\ shm = [w \in ShmWords |-> IF w \in Counters THEN c ELSE ZeroShm[w]]
        /\ platCnt = [writeReady |-> 0, readReady |-> c, readAck |-> c, writeAck |-> c]
  /\ platPc = "poll"
  /\ corePc = "wait"
  /\ firmware = "echo"

\* the run is followed until the firmware has read MaxReads payloads
MaxReads == 3

NextWrap ==
  /\ Len(consumed["ptc"]) < MaxReads
  /\ \/ PlatStdin
     \/ PlatSendData
     \/ PlatSendSize
     \/ PlatSendAck
     \/ PlatReadReady
     \/ PlatRecvData
     \/ PlatRecvAck
     \/ EchoStep
  /\ mboxHeld

\* platform loop and echo firmware with the counters about to wrap
SpecWrap == InitWrap /\ [][NextWrap]_vars

NextEprintf ==
  /\ \/ PlatformStep
     \/ CoreReset
     \/ EprintfStep
  /\ mboxHeld

\* the platform polling loop keeps running and the core runs: every step of
\* either that stays possible is eventually taken
EprintfFairness ==
  /\ WF_vars(PlatBoot /\ mboxHeld)
  /\ WF_vars(PlatSendData /\ mboxHeld)
  /\ WF_vars(PlatSendSize /\ mboxHeld)
  /\ WF_vars(PlatSendAck /\ mboxHeld)
  /\ WF_vars(PlatReadReady /\ mboxHeld)
  /\ WF_vars(PlatRecvData /\ mboxHeld)
  /\ WF_vars(PlatRecvAck /\ mboxHeld)
  /\ WF_vars(CoreReset /\ mboxHeld)
  /\ WF_vars(EprintfStep /\ mboxHeld)

\* the platform with a firmware that prints with Eprintf
InitEprintf == InitBus /\ InitMailbox /\ InitSimOff /\ firmware = "eprintf"

SpecEprintfFair == InitEprintf /\ [][NextEprintf]_vars /\ EprintfFairness

\* the counters have any value, the local token being level with the counter
InitApi ==
  /\ InitMailboxCommon
  /\ \E c \in {0, 1, UWordMod - 1} :
       /\ shm = [ZeroShm EXCEPT !["CTP_PLATFORM_COUNT"] = c]
       /\ platCnt = [ZeroCnt EXCEPT !.writeReady = c]
  /\ platPc = "off"
  /\ corePc = "off"
  /\ firmware = "none"

NextApi ==
  /\ \/ ApiWriteReady
     \/ ApiCoreReadAck
  /\ UNCHANGED <<platPc, platIn, stdinSize, ctpSize, platBuf, nextMsg>>
  /\ UNCHANGED coreLocals
  /\ UNCHANGED <<published, consumed, readyAt>>
  /\ UNCHANGED mboxFrame
  /\ UNCHANGED simVars

\* a client polling SharedWriteReady while the core acknowledges
InitApiClient == InitBus /\ InitApi /\ InitSimOff

SpecApi == InitApiClient /\ [][NextApi]_vars

(***************************************************************************)
(* The core-side SharedWriteReady, called by a firmware, against the       *)
(* platform's acknowledges                                                 *)
(***************************************************************************)
\* SharedWriteReady() of the firmware: CTP CORE_COUNT == PTC CORE_COUNT
CoreWriteReady(w) == w["CTP_CORE_COUNT"] = w["PTC_CORE_COUNT"]

\* the firmware calls SharedWriteReady(): two volatile reads, nothing written
ApiCoreWriteReady ==
  /\ Len(wrHist) < MaxHist
  /\ wrHist' = Append(wrHist, IF CoreWriteReady(shm) THEN "ready" ELSE "busy")
  /\ UNCHANGED <<shm, writers, platCnt>>

\* the firmware calls SharedWriteAck(): CTP CORE_COUNT + 1
ApiCoreWriteAck ==
  /\ Len(wrHist) < MaxHist
  /\ shm' = [shm EXCEPT ![CoreWriteAckAddr] = Inc(@)]
  /\ writers' = Wrote(writers, {CoreWriteAckAddr}, "core")
  /\ wrHist' = Append(wrHist, "publish")
  /\ UNCHANGED platCnt

\* the platform's SharedReadAck(): icount++, written to PTC CORE_COUNT
ApiPlatReadAck ==
  /\ Len(wrHist) < MaxHist
  /\ platCnt' = [platCnt EXCEPT !.readAck = Inc(@)]
  /\ shm' = [shm EXCEPT ![PlatReadAckAddr] = Inc(platCnt.readAck)]
  /\ writers' = Wrote(writers, {PlatReadAckAddr}, "platform")
  /\ wrHist' = Append(wrHist, "ack")

\* the channel is free: both counters and the platform's count are level
InitCoreApi ==
  /\ InitBus /\ InitSimOff
  /\ InitMailboxCommon
  /\ \E c \in {0, 1, UWordMod - 1} :
       /\ shm = [ZeroShm EXCEPT !["CTP_CORE_COUNT"] = c, !["PTC_CORE_COUNT"] = c]
       /\ platCnt = [ZeroCnt EXCEPT !.readAck = c]
  /\ platPc = "off"
  /\ corePc = "off"
  /\ firmware = "none"

NextCoreApi ==
  /\ \/ ApiCoreWriteReady
     \/ ApiCoreWriteAck
     \/ ApiPlatReadAck
  /\ UNCHANGED <<platPc, platIn, stdinSize, ctpSize, platBuf, nextMsg>>
  /\ UNCHANGED coreLocals
  /\ UNCHANGED <<published, consumed, readyAt>>
  /\ UNCHANGED mboxFrame
  /\ UNCHANGED simVars

\* a firmware polling SharedWriteReady and publishing while the platform
\* acknowledges
SpecCoreApi == InitCoreApi /\ [][NextCoreApi]_vars

NextBus == BusStep /\ UNCHANGED mboxVars /\ UNCHANGED simVars

InitBusOnly == InitBus /\ InitMailboxOff /\ InitSimOff

SpecBus == InitBusOnly /\ [][NextBus]_vars

\* calls a client of the data port makes one after the other
MaxPairCalls == 2

\* valid arguments for the data window: aligned, not null, inside the window
PairCallArgs ==
  [op : {"Axi4Write", "Axi4Read"}, addr : {0, NB_BYTES_IN_WORD},
   size : {NB_BYTES_IN_WORD, 2 * NB_BYTES_IN_WORD}, dataNull : {FALSE}]

PairCall == \E a \in PairCallArgs : BusEnterFrom(a, MaxPairCalls)

\* either build of the platform, the hardware one with its windows mapped
InitBusPair ==
  /\ backend \in {"SIM", "HW"}
  /\ gMapped = [p \in Ports |-> backend = "HW"]
  /\ drv = [p \in Ports |-> IdleDrv]
  /\ tgt = [p \in Ports |-> IdleTgt]
  /\ mem = [p \in Ports |-> [w \in 0..(MemWords - 1) |-> 0]]
  /\ busPc = "idle"
  /\ call = NoCall
  /\ localAddr = 0
  /\ beatIdx = 0
  /\ ret = SUCCESS
  /\ rdBuf = <<>>
  /\ cycles = 0
  /\ awLog = <<>>
  /\ wLog = <<>>
  /\ bCount = 0
  /\ nCalls = 0
  /\ InitMailboxOff
  /\ InitSimOff

NextBusPair ==
  /\ PairCall \/ BusSimStep
  /\ UNCHANGED mboxVars
  /\ UNCHANGED simVars

\* sequences of valid writes and reads of the data window on either backend
SpecBusPair == InitBusPair /\ [][NextBusPair]_vars

NextHelper == HelperStep /\ UNCHANGED mboxVars /\ UNCHANGED simVars

InitHelper == InitBus /\ InitMailboxOff /\ InitSimOff

\* callers of the helpers and of the entry points
SpecHelper == InitHelper /\ [][NextHelper]_vars

(***************************************************************************)
(* Trace parser: Parse of spike_parser.cpp                                 *)
(***************************************************************************)
\* lines of a log file
MaxLines == 5

\* addresses below this are code of the golden simulator itself
SPIKE_THRESHOLD == 8192

EBREAK == <<"e", "b", "r", "e", "a", "k">>
ADDI == <<"a", "d", "d", "i">>

\* hexadecimal address fields found in a log, as digit values
AddrBelow == <<1, 15, 15, 12>>
AddrA == <<2, 0, 0, 0>>
AddrB == <<8, 0, 0, 4>>

InsLine(a, m) == [kind |-> "ins", addr |-> a, asm |-> m]
\* a result line without a writeback field, and one with "x5 0x...7"
ResLine == [kind |-> "res", wb |-> <<>>]
ResWb(r, v) == [kind |-> "res", wb |-> <<r, v>>]
JunkLine == [kind |-> "junk"]

\* an instruction line, a result line, a blank / comment / ">>>>" line
LogLines ==
  {InsLine(AddrBelow, ADDI), InsLine(AddrBelow, EBREAK), InsLine(AddrA, ADDI),
   InsLine(AddrB, ADDI), InsLine(AddrA, EBREAK), ResLine, JunkLine}

SeqsUpTo(S, n) == UNION {[1..k -> S] : k \in 0..n}

\* a readable file: its lines, and whether the last one ends with a newline
LogFiles(n) ==
  {[lines |-> ls, eofNl |-> nl] : ls \in SeqsUpTo(LogLines, n), nl \in BOOLEAN}

RECURSIVE HexValue(_)
\* sscanf("%llx"): the value of a run of hexadecimal digits
HexValue(ds) ==
  IF ds = <<>> THEN 0 ELSE HexValue(SubSeq(ds, 1, Len(ds) - 1)) * 16 + ds[Len(ds)]

\* the characters fgets returns for the mnemonic part of line i
AsmChars(f, i) ==
  LET l == f.lines[i]
      txt == IF l.kind = "ins" THEN l.asm ELSE <<"(">>
  IN IF i = Len(f.lines) /\ ~f.eofNl THEN txt ELSE Append(txt, "LF")

\* ParseInstrAsm: copy all but the last character of the rest of the line
ParseInstrAsm(chars) == SubSeq(chars, 1, Len(chars) - 1)

\* ParseAddr on the second token after "core": the address of an instruction
\* line, the privilege digit of a result line
ParseAddr(l) == IF l.kind = "ins" THEN HexValue(l.addr) ELSE 3

\* memcmp(instr, "ebreak", strlen("ebreak")) == 0
IsEbreak(instr) == Len(instr) >= Len(EBREAK) /\ SubSeq(instr, 1, Len(EBREAK)) = EBREAK

\* current->addr < 0x00002000ULL
BelowThreshold(addr) == addr < SPIKE_THRESHOLD

\* static_cast<int8_t> of the unsigned read by "%u"
ToInt8(v) == LET m == v % 256 IN IF m >= 128 THEN m - 256 ELSE m

RECURSIVE DecValue(_)
\* sscanf("%u"): the value of a run of decimal digits
DecValue(ds) ==
  IF ds = <<>> THEN 0 ELSE DecValue(SubSeq(ds, 1, Len(ds) - 1)) * 10 + ds[Len(ds)]

\* the text after ")" of the second line starts with "x"
HasWriteback(l) == l.kind = "res" /\ l.wb # <<>>

\* ParseRd and ParseRdData on the second line of a record: they run only when
\* the text after ")" starts with "x"; else the node keeps what it holds
ParseRd(n, l) ==
  IF HasWriteback(l)
  THEN [n EXCEPT !.rd = ToInt8(DecValue(l.wb[1])), !.rd_data = HexValue(l.wb[2])]
  ELSE n

\* a node as calloc or memset leaves it
EmptyNode == [addr |-> 0, instr |-> <<>>, rd |-> 0, rd_data |-> 0]

SetLast(ns, n) == [ns EXCEPT ![Len(ns)] = n]

\* strstr(">>>>"), strstr("$x") or IsCommentOrBlank
IsSkipped(l) == l.kind = "junk"

\* one iteration of the while (fgets ...) loop on file f at line pos with the
\* list built so far, or its exit at end of file
ScanLine(f, pos, list) ==
  IF pos > Len(f.lines)
  THEN [pc |-> "prune", pos |-> pos, list |-> list]
  ELSE LET l == f.lines[pos]
           cur == [list[Len(list)] EXCEPT
                     !.addr = ParseAddr(l),
                     !.instr = ParseInstrAsm(AsmChars(f, pos))]
           res == ParseRd(cur, f.lines[pos + 1])
       IN IF IsSkipped(l)
          THEN [pc |-> "scan", pos |-> pos + 1, list |-> list]
          ELSE IF IsEbreak(cur.instr)
          THEN [pc |-> "prune", pos |-> pos + 1, list |-> SetLast(list, cur)]
          ELSE IF pos + 1 > Len(f.lines)
          THEN [pc |-> "prune", pos |-> pos + 1, list |-> SetLast(list, cur)]
          ELSE IF BelowThreshold(cur.addr)
          THEN [pc |-> "scan", pos |-> pos + 2, list |-> SetLast(list, EmptyNode)]
          ELSE [pc |-> "scan", pos |-> pos + 2,
                list |-> Append(SetLast(list, res), EmptyNode)]

\* the loop of Parse, one line or one record at a time
ParseScan ==
  /\ parsePc = "scan"
  /\ LET r == ScanLine(spikeFile, rdPos, instrList)
     IN /\ parsePc' = r.pc
        /\ rdPos' = r.pos
        /\ instrList' = r.list
  /\ UNCHANGED spikeFile

\* the pruning after the loop: an empty only node gives the empty list, an
\* empty last node is unlinked and freed
Prune(list) ==
  LET n == Len(list)
  IN IF n = 1 /\ list[1].instr = <<>> THEN <<>>
     ELSE IF n >= 2 /\ list[n].instr = <<>> THEN SubSeq(list, 1, n - 1)
     ELSE list

ParsePrune ==
  /\ parsePc = "prune"
  /\ instrList' = Prune(instrList)
  /\ parsePc' = "done"
  /\ UNCHANGED <<spikeFile, rdPos>>

RECURSIVE ParseFrom(_, _, _)
\* the list Parse returns for file f, continued from line pos
ParseFrom(f, pos, list) ==
  LET r == ScanLine(f, pos, list)
  IN IF r.pc = "prune" THEN Prune(r.list) ELSE ParseFrom(f, r.pos, r.list)

\* Parse is entered on an open file: the head node is allocated
InitParser ==
  /\ spikeFile \in LogFiles(MaxLines)
  /\ (spikeFile.lines = <<>> => spikeFile.eofNl)
  /\ rdPos = 1
  /\ instrList = <<EmptyNode>>
  /\ parsePc = "scan"

ParserStep ==
  \/ ParseScan
  \/ ParsePrune

NextParser ==
  /\ ParserStep
  /\ UNCHANGED <<busVars, mboxVars, cmpVars, storeVars, loadVars>>

InitParse == InitBus /\ backend = "SIM" /\ InitMailboxOff /\ InitCmpOff /\ InitStoreOff
             /\ InitLoadOff
             /\ InitParser

\* Parse run on every log file of the bounded set
SpecParser == InitParse /\ [][NextParser]_vars

\* lines of logs whose records are above the threshold, with and without a
\* register writeback on the result line
RdLogLines ==
  {InsLine(AddrA, ADDI), InsLine(AddrB, EBREAK), ResLine, ResWb(<<5>>, <<7>>),
   ResWb(<<3, 1>>, <<7>>), JunkLine}

InitParserRd ==
  /\ InitBus /\ backend = "SIM" /\ InitMailboxOff /\ InitCmpOff /\ InitStoreOff
  /\ InitLoadOff
  /\ spikeFile \in {[lines |-> ls, eofNl |-> TRUE] : ls \in SeqsUpTo(RdLogLines, MaxLines)}
  /\ rdPos = 1
  /\ instrList = <<EmptyNode>>
  /\ parsePc = "scan"

\* Parse run on logs with register writebacks
SpecParserRd == InitParserRd /\ [][NextParser]_vars

(***************************************************************************)
(* Comparator: the per-instruction checks of simulation_vs_spike.cpp.      *)
(* A uword_t is a little-endian sequence of NB_BYTES_IN_WORD bytes; an     *)
(* instruction word is [hi, lo]: its upper 12 and lower 20 bits.           *)
(***************************************************************************)
\* mask of the byte offset inside a word
ADDR_OFFSET == NB_BYTES_IN_WORD - 1

\* instr_bin & 0x7F
Opcode(bin) == bin.lo % 128

\* (instr_bin >> 12) & 0x7
Funct3(bin) == (bin.lo \div 4096) % 8

\* instr_bin >> 20
CsrAddr(bin) == bin.hi

IsStore(bin) == Opcode(bin) = 35

IsCSR(bin) == Opcode(bin) = 115

\* w >> (8 * n) on a word
ShiftRightBytes(w, n) ==
  [i \in 1..NB_BYTES_IN_WORD |-> IF i + n <= NB_BYTES_IN_WORD THEN w[i + n] ELSE 0]

\* w & 0xFF, w & 0xFFFF, w & 0xFFFFFFFF for k = 1, 2, 4
MaskBytes(w, k) == [i \in 1..NB_BYTES_IN_WORD |-> IF i <= k THEN w[i] ELSE 0]

\* word_index of ReadBackAlignedData
WordIndex(a) == (a % 65536) \div NB_BYTES_IN_WORD

\* ReadBackAlignedData: the backing word shifted by the byte offset
ReadBackAlignedData(m, a) == ShiftRightBytes(m[WordIndex(a)], a % (ADDR_OFFSET + 1))

\* a store check that compares whole words whatever the width of the store
StoreBytesWord(f3) == NB_BYTES_IN_WORD

\* bytes compared by verify_mem for each funct3: SB, SH, SW, otherwise the word
StoreBytes(f3) ==
  CASE f3 = 0 -> 1
    [] f3 = 1 -> 2
    [] f3 = 2 -> 4
    [] OTHER -> NB_BYTES_IN_WORD

\* verify_mem: the result and, on a mismatch, the values of the log line
VerifyMem(instr, m) ==
  LET rb == ReadBackAlignedData(m, instr.mem_addr)
      k == StoreBytes(Funct3(instr.instr_bin))
      exp == MaskBytes(instr.mem_data, k)
      act == MaskBytes(rb, k)
  IN IF act # exp
     THEN [ret |-> FAILURE, logged |-> TRUE, expected |-> exp, actual |-> act]
     ELSE [ret |-> SUCCESS, logged |-> FALSE, expected |-> exp, actual |-> act]

\* CSR numbers verify_gpr knows: 0xb00, 0xb03, 0xb04
MHPMCOUNTER0 == 2816
MHPMCOUNTER3 == 2819
MHPMCOUNTER4 == 2820

\* GprMemory[] and the mhpmcounter registers of the design are XLEN bits wide
XLenMod == UWordMod

\* the counters compared without their offsets
CsrOffsetNone(csr) == 0

\* the offset verify_gpr takes off each counter
CsrOffset(csr) ==
  CASE csr = MHPMCOUNTER0 -> 4
    [] csr = MHPMCOUNTER3 -> 2
    [] OTHER -> 0

\* mhpmcounterN_q - offset, in the unsigned arithmetic of the counter
CounterExpected(c, csr) == (c - CsrOffset(csr)) % XLenMod

\* verify_gpr: CSR reads of the three counters with their offsets, any other
\* CSR is an error, any other instruction compares GprMemory[rd] with rd_data;
\* force tells that the register is then overwritten with rd_data
VerifyGpr(instr, d) ==
  IF IsCSR(instr.instr_bin)
  THEN CASE CsrAddr(instr.instr_bin) = MHPMCOUNTER0 ->
              IF d.gpr # CounterExpected(d.mhpm0, MHPMCOUNTER0)
              THEN [ret |-> FAILURE, logged |-> TRUE, force |-> FALSE]
              ELSE [ret |-> SUCCESS, logged |-> FALSE, force |-> TRUE]
         [] CsrAddr(instr.instr_bin) = MHPMCOUNTER3 ->
              IF d.gpr # CounterExpected(d.mhpm3, MHPMCOUNTER3)
              THEN [ret |-> FAILURE, logged |-> TRUE, force |-> FALSE]
              ELSE [ret |-> SUCCESS, logged |-> FALSE, force |-> FALSE]
         [] CsrAddr(instr.instr_bin) = MHPMCOUNTER4 ->
              IF d.gpr # CounterExpected(d.mhpm4, MHPMCOUNTER4)
              THEN [ret |-> FAILURE, logged |-> TRUE, force |-> FALSE]
              ELSE [ret |-> SUCCESS, logged |-> FALSE, force |-> FALSE]
         [] OTHER -> [ret |-> FAILURE, logged |-> TRUE, force |-> FALSE]
  ELSE IF instr.rd >= 0 /\ d.gpr # instr.rd_data
       THEN [ret |-> FAILURE, logged |-> TRUE, force |-> FALSE]
       ELSE [ret |-> SUCCESS, logged |-> FALSE, force |-> FALSE]

\* byte values of the backing word and of the logged store data
RawBytes == {0, 171, 205}
DataBytes == {0, 171}

\* address of the store: word 0x1000 and its four byte offsets
StoreAddrs == {4096 + o : o \in 0..ADDR_OFFSET}

\* a store node: opcode 0100011 with the given funct3
StoreBin(f3) == [hi |-> 0, lo |-> f3 * 4096 + 35]

\* words over a set of bytes
WordsOver(bs) == [1..NB_BYTES_IN_WORD -> bs]

\* a store node of the log and the backing word of the design
StoreInput(f3, a, dt, raw) ==
  [used |-> TRUE,
   instr |-> [instr_bin |-> StoreBin(f3), mem_addr |-> a, mem_data |-> dt],
   mem |-> [w \in {WordIndex(a)} |-> raw]]

\* verify_mem is called on the node
StoreCheck ==
  /\ vmIn.used
  /\ ~vmOut.done
  /\ vmOut' = [done |-> TRUE, res |-> VerifyMem(vmIn.instr, vmIn.mem)]
  /\ UNCHANGED vmIn

InitStore ==
  /\ \E f3 \in 0..3, a \in StoreAddrs, dt \in WordsOver(DataBytes), raw \in WordsOver(RawBytes) :
       vmIn = StoreInput(f3, a, dt, raw)
  /\ vmOut = [done |-> FALSE]

NextStore ==
  /\ StoreCheck
  /\ UNCHANGED <<busVars, mboxVars, parserVars, cmpVars, loadVars>>

InitStoreCheck == InitBus /\ backend = "SIM" /\ InitMailboxOff /\ InitParserOff
                  /\ InitCmpOff /\ InitLoadOff /\ InitStore

\* verify_mem applied to every store node and backing word of the bounded sets
SpecStore == InitStoreCheck /\ [][NextStore]_vars

(***************************************************************************)
(* verify_gpr applied to SYSTEM instructions                               *)
(***************************************************************************)
\* upper twelve bits of the SYSTEM instructions offered: the three counters,
\* mstatus, and ecall
SystemCsrs == {MHPMCOUNTER0, MHPMCOUNTER3, MHPMCOUNTER4, 768, 0}

\* values of a counter, with those below the offsets
CounterValues == {0, 2, 3, 4, 11}

\* values of the destination register, with those a wrapped counter gives
RdValues == {0, 1, 2, 7, 11, XLenMod - 4, XLenMod - 2, XLenMod - 1}

\* opcodes of the nodes offered to verify_gpr: SYSTEM and OP-IMM
GprOpcodes == {115, 19}

\* registers of the design followed by the model: the destination of the
\* node and one verify_gpr does not look at
GprRegs == {5, 6}

\* a node of the log that is not a store, and what the design shows
GprInput(op, csr, g, c0, c3, c4) ==
  [used |-> TRUE,
   instr |-> [instr_bin |-> [hi |-> csr, lo |-> 5 * 128 + op], rd |-> 5, rd_data |-> 7],
   d |-> [gpr |-> g, mhpm0 |-> c0, mhpm3 |-> c3, mhpm4 |-> c4,
          regs |-> [r \in GprRegs |-> IF r = 5 THEN g ELSE 9],
          GprEn |-> 0]]

\* the register file of the design evaluated with GprEn high: the register
\* GprAddr takes GprData
GprInject(regs, addr, data) == [regs EXCEPT ![addr] = data]

\* the injection made after every check
IsForcedAlways(res) == TRUE

\* the injection is reached only on the path of a matching mhpmcounter0 read
IsForced(res) == res.force

\* the design as verify_gpr leaves it: GprAddr, GprData, GprEn = 1, Comb(),
\* GprEn = 0 on the forcing path; Comb evaluates without advancing the time
DesignAfterGpr(instr, d) ==
  IF IsForced(VerifyGpr(instr, d))
  THEN [regs |-> GprInject(d.regs, instr.rd, instr.rd_data), GprEn |-> 0,
        combs |-> 1, ticks |-> 0]
  ELSE [regs |-> d.regs, GprEn |-> d.GprEn, combs |-> 0, ticks |-> 0]

\* verify_gpr is called on the node
GprCheck ==
  /\ vmIn.used
  /\ ~vmOut.done
  /\ vmOut' = [done |-> TRUE, res |-> VerifyGpr(vmIn.instr, vmIn.d),
               after |-> DesignAfterGpr(vmIn.instr, vmIn.d)]
  /\ UNCHANGED vmIn

InitGpr ==
  /\ \E op \in GprOpcodes, csr \in SystemCsrs, g \in RdValues, c0 \in CounterValues,
        c3 \in CounterValues, c4 \in CounterValues :
       vmIn = GprInput(op, csr, g, c0, c3, c4)
  /\ vmOut = [done |-> FALSE]

NextGpr ==
  /\ GprCheck
  /\ UNCHANGED <<busVars, mboxVars, parserVars, cmpVars, loadVars>>

InitGprCheck == InitBus /\ backend = "SIM" /\ InitMailboxOff /\ InitParserOff
                /\ InitCmpOff /\ InitLoadOff /\ InitGpr

\* verify_gpr applied to every SYSTEM node and design state of the bounded sets
SpecGpr == InitGprCheck /\ [][NextGpr]_vars

(***************************************************************************)
(* Comparator: run() and main() of simulation_vs_spike.cpp, with Tick and  *)
(* Cycle of sim.cpp.  gSimTime is counted in ticks.                        *)
(***************************************************************************)
\* non-terminal nodes of a reference trace
MaxTrace == 2

\* MAX_SIM_TIME in ticks
MaxTicks == 14

\* ticks spent by InitSim: one Cycle and one Tick
InitTicks == 3

\* values of the register a node writes, in the DUT and in the log
GprValues == {7, 9}

GprNode ==
  [addr |-> 8192, instr |-> ADDI, instr_bin |-> [hi |-> 0, lo |-> 19], rd |-> 5,
   rd_data |-> 7, mem_addr |-> 0, mem_data |-> <<0, 0, 0, 0>>]

StoreNode ==
  [addr |-> 8196, instr |-> <<"s", "b">>, instr_bin |-> StoreBin(0), rd |-> 0,
   rd_data |-> 0, mem_addr |-> 4096, mem_data |-> <<171, 0, 0, 0>>]

\* a read of mstatus: a CSR verify_gpr does not support
CsrNode ==
  [addr |-> 8200, instr |-> <<"c", "s", "r", "r">>, instr_bin |-> [hi |-> 768, lo |-> 115],
   rd |-> 5, rd_data |-> 7, mem_addr |-> 0, mem_data |-> <<0, 0, 0, 0>>]

EbreakNode ==
  [addr |-> 8204, instr |-> EBREAK, instr_bin |-> [hi |-> 1, lo |-> 115], rd |-> 0,
   rd_data |-> 0, mem_addr |-> 0, mem_data |-> <<0, 0, 0, 0>>]

\* lists ParseSpike can return: with or without the terminal node
Traces(n) ==
  {ns \o tl : ns \in SeqsUpTo({GprNode, StoreNode, CsrNode}, n),
              tl \in {<<>>, <<EbreakNode>>}}

\* what the comparator can observe of the design after a clock cycle
DutStates ==
  {[alive |-> TRUE, loaded |-> TRUE, wb_valid |-> v, gpr |-> g, word |-> w, pcOk |-> p,
    mhpm0 |-> 11, mhpm3 |-> 9, mhpm4 |-> 7] :
     v \in {0, 1}, g \in GprValues,
     w \in {<<171, 0, 0, 0>>, <<205, 0, 0, 0>>}, p \in BOOLEAN}

\* the design before the firmware is loaded
DutReset ==
  [alive |-> TRUE, loaded |-> FALSE, wb_valid |-> 0, gpr |-> 0, word |-> <<0, 0, 0, 0>>,
   pcOk |-> TRUE, mhpm0 |-> 11, mhpm3 |-> 9, mhpm4 |-> 7]

\* the time limit test of Tick moved two ticks late
TimedOutLate(t) == t >= MaxTicks + 2

\* Tick's guard
TimedOut(t) == t >= MaxTicks

\* a Cycle is two Ticks: does one of them find the time limit reached
CycleTimesOut(t) == TimedOut(t) \/ TimedOut(t + 1)

\* Tick at the time limit: message on stdout, logs and design released,
\* std::_Exit(0); the time is not advanced and the design is not evaluated
TickExit ==
  /\ TimedOut(gSimTime)
  /\ gSimTime' = gSimTime
  /\ dut' = [dut EXCEPT !.alive = FALSE]
  /\ logOut' = Append(logOut, [kind |-> "timeout"])
  /\ released' = [released EXCEPT !.sim = TRUE]
  /\ exitStatus' = "EXIT_SUCCESS"
  /\ cmpPc' = "exited"

\* a Cycle that meets the time limit: either its first Tick exits, or its
\* first Tick (the falling edge) passes and its second Tick is left to exit
TimeoutExit ==
  IF TimedOut(gSimTime)
  THEN TickExit
  ELSE /\ gSimTime' = gSimTime + 1
       /\ cmpPc' = "tick2"
       /\ UNCHANGED <<dut, logOut, released, exitStatus>>

\* the second Tick of a Cycle, at the time limit
SecondTick ==
  /\ cmpPc = "tick2"
  /\ TickExit
  /\ UNCHANGED <<trace, instrIdx, flag, checked, runCycles, pcDiverged>>

\* the while condition of run()
LoopContinuesAlways(instr) == TRUE

LoopContinues(instr) == ~IsEbreak(instr.instr)

\* flag is left as it was by a check
FlagKept(old, res) == old

\* flag = verify_mem(instr) / flag = verify_gpr(instr)
FlagAfter(old, res) == res

\* the check run() makes on a node
Verify(instr, d) ==
  IF IsStore(instr.instr_bin)
  THEN VerifyMem(instr, [w \in {WordIndex(instr.mem_addr)} |-> d.word])
  ELSE VerifyGpr(instr, d)

\* the register forced by verify_gpr after a matching mhpmcounter0 read
AfterCheck(instr, d) ==
  IF ~IsStore(instr.instr_bin) /\ VerifyGpr(instr, d).force
  THEN [d EXCEPT !.gpr = instr.rd_data]
  ELSE d

\* the pointer moved past the next node
NextInstrSkip(idx) == idx + 2

\* instr = instr->next
NextInstr(idx) == idx + 1

\* ParseSpike: the list, or nullptr when the file cannot be opened
CmpParse ==
  /\ cmpPc = "parse"
  /\ \E opened \in BOOLEAN :
       IF opened
       THEN /\ released' = [released EXCEPT !.spike = "held"]
            /\ cmpPc' = "load"
            /\ UNCHANGED flag
       ELSE /\ flag' = FAILURE
            /\ cmpPc' = "report"
            /\ UNCHANGED released
  /\ UNCHANGED <<trace, instrIdx, gSimTime, dut, checked, logOut, exitStatus, runCycles,
                 pcDiverged>>

\* SetRamResetSignal and LoadFirmware
CmpLoad ==
  /\ cmpPc = "load"
  /\ \E ok \in BOOLEAN :
       IF ok
       THEN /\ \E d \in DutStates : dut' = d
            /\ gSimTime' = gSimTime + 2
            /\ cmpPc' = "loop"
            /\ UNCHANGED <<flag, released>>
       ELSE /\ flag' = FAILURE
            /\ released' = [released EXCEPT !.spike = "freed"]
            /\ cmpPc' = "report"
            /\ UNCHANGED <<dut, gSimTime>>
  /\ UNCHANGED <<trace, instrIdx, checked, logOut, exitStatus, runCycles, pcDiverged>>

\* instr is null: the list is empty or ended without a terminal node
CmpFault ==
  /\ cmpPc = "loop"
  /\ instrIdx > Len(trace)
  /\ cmpPc' = "exited"
  /\ exitStatus' = "killed"
  /\ UNCHANGED <<trace, instrIdx, flag, gSimTime, dut, checked, logOut, released, runCycles,
                 pcDiverged>>

\* the loop ends on the terminal node
CmpTerminal ==
  /\ cmpPc = "loop"
  /\ instrIdx <= Len(trace)
  /\ ~LoopContinues(trace[instrIdx])
  /\ cmpPc' = "final"
  /\ UNCHANGED <<trace, instrIdx, flag, gSimTime, dut, checked, logOut, released, exitStatus,
                 runCycles, pcDiverged>>

\* no instruction retires: one Cycle
CmpIdle ==
  /\ cmpPc = "loop"
  /\ instrIdx <= Len(trace)
  /\ LoopContinues(trace[instrIdx])
  /\ dut.wb_valid = 0
  /\ IF CycleTimesOut(gSimTime)
     THEN TimeoutExit /\ UNCHANGED runCycles
     ELSE /\ gSimTime' = gSimTime + 2
          /\ runCycles' = runCycles + 1
          /\ \E d \in DutStates : dut' = d
          /\ UNCHANGED <<cmpPc, logOut, released, exitStatus>>
  /\ UNCHANGED <<trace, instrIdx, flag, checked, pcDiverged>>

\* an instruction retires: one Cycle, then its check; a mismatch leaves the loop
CmpCheck ==
  /\ cmpPc = "loop"
  /\ instrIdx <= Len(trace)
  /\ LoopContinues(trace[instrIdx])
  /\ dut.wb_valid = 1
  /\ IF CycleTimesOut(gSimTime)
     THEN /\ TimeoutExit
          /\ UNCHANGED <<instrIdx, flag, checked, runCycles, pcDiverged>>
     ELSE \E d \in DutStates :
            LET instr == trace[instrIdx]
                res == Verify(instr, d)
            IN /\ gSimTime' = gSimTime + 2
               /\ runCycles' = runCycles + 1
               /\ dut' = AfterCheck(instr, d)
               /\ pcDiverged' = (pcDiverged \/ ~dut.pcOk)
               /\ checked' = Append(checked, [idx |-> instrIdx, ret |-> res.ret,
                                            sampled |-> gSimTime,
                                            at |-> gSimTime + 2])
               /\ flag' = FlagAfter(flag, res.ret)
               /\ logOut' = IF res.logged
                            THEN Append(logOut, [kind |-> "mismatch", idx |-> instrIdx])
                            ELSE logOut
               /\ IF flag' # SUCCESS
                  THEN cmpPc' = "final" /\ UNCHANGED instrIdx
                  ELSE cmpPc' = "loop" /\ instrIdx' = NextInstr(instrIdx)
               /\ UNCHANGED <<released, exitStatus>>
  /\ UNCHANGED trace

\* the final commit edge
CmpFinalCycle ==
  /\ cmpPc = "final"
  /\ IF CycleTimesOut(gSimTime)
     THEN TimeoutExit /\ UNCHANGED runCycles
     ELSE /\ gSimTime' = gSimTime + 2
          /\ runCycles' = runCycles + 1
          /\ \E d \in DutStates : dut' = d
          /\ cmpPc' = "free"
          /\ UNCHANGED <<logOut, released, exitStatus>>
  /\ UNCHANGED <<trace, instrIdx, flag, checked, pcDiverged>>

\* FreeSpike, return flag
CmpReturn ==
  /\ cmpPc = "free"
  /\ released' = [released EXCEPT !.spike = "freed"]
  /\ cmpPc' = "report"
  /\ UNCHANGED <<trace, instrIdx, flag, gSimTime, dut, checked, logOut, exitStatus, runCycles,
                 pcDiverged>>

\* main: the verdict line
MainReport ==
  /\ cmpPc = "report"
  /\ logOut' = Append(logOut, [kind |-> "verdict",
                               text |-> IF flag # SUCCESS THEN "FAILURE" ELSE "SUCCESS"])
  /\ cmpPc' = "finalize"
  /\ UNCHANGED <<trace, instrIdx, flag, gSimTime, dut, checked, released, exitStatus, runCycles,
                 pcDiverged>>

\* main: FinalizeSim
MainFinalize ==
  /\ cmpPc = "finalize"
  /\ dut' = [dut EXCEPT !.alive = FALSE]
  /\ released' = [released EXCEPT !.sim = TRUE]
  /\ cmpPc' = "exit"
  /\ UNCHANGED <<trace, instrIdx, flag, gSimTime, checked, logOut, exitStatus, runCycles,
                 pcDiverged>>

\* main: the exit status
MainExit ==
  /\ cmpPc = "exit"
  /\ exitStatus' = IF flag = SUCCESS THEN "EXIT_SUCCESS" ELSE "EXIT_FAILURE"
  /\ cmpPc' = "exited"
  /\ UNCHANGED <<trace, instrIdx, flag, gSimTime, dut, checked, logOut, released, runCycles,
                 pcDiverged>>

\* main has called InitSim and enters run()
InitCmp ==
  /\ trace \in Traces(MaxTrace)
  /\ cmpPc = "parse"
  /\ instrIdx = 1
  /\ flag = SUCCESS
  /\ gSimTime = InitTicks
  /\ dut = DutReset
  /\ checked = <<>>
  /\ logOut = <<>>
  /\ released = [spike |-> "none", sim |-> FALSE]
  /\ exitStatus = "none"
  /\ runCycles = 0
  /\ pcDiverged = FALSE

CmpStep ==
  \/ CmpParse
  \/ CmpLoad
  \/ CmpFault
  \/ CmpTerminal
  \/ CmpIdle
  \/ CmpCheck
  \/ CmpFinalCycle
  \/ SecondTick
  \/ CmpReturn
  \/ MainReport
  \/ MainFinalize
  \/ MainExit

NextCompare ==
  /\ CmpStep
  /\ UNCHANGED <<busVars, mboxVars, parserVars, storeVars, loadVars>>

InitCompare == InitBus /\ backend = "SIM" /\ InitMailboxOff /\ InitParserOff
               /\ InitStoreOff /\ InitLoadOff /\ InitCmp

\* the comparator run on every trace and every behaviour of the design
SpecCompare == InitCompare /\ [][NextCompare]_vars

(***************************************************************************)
(* A bus call of the simulated backend under the time limit: every Cycle   *)
(* of a wait loop is two Ticks of sim.cpp, and Tick ends the process once  *)
(* MAX_SIM_TIME is reached.                                                *)
(***************************************************************************)
\* simulated time at which the first call is entered: InitSim is done
BusStartTimes == {InitTicks}

\* positions of an entry point whose next statement is a Cycle
BusWaits == {"aw_wait", "w_wait", "b_wait", "ar_wait", "r_wait"}

\* the bench calls the write or the read entry point of the data port with
\* arguments that pass the entry checks
TimedBusCall ==
  \E a \in {c \in BusCallArgs : c.op # "InstrAxi4Write"
                                  /\ EntryCheck(c.op, c.addr, c.size, c.dataNull) = SUCCESS} :
    BusEnter(a)

\* a step of an entry point; a step that makes a Cycle takes two ticks
TimedBusStep ==
  /\ cmpPc = "bus"
  /\ TimedBusCall \/ BusSimStep
  /\ IF cycles' = cycles + 1
     THEN ~CycleTimesOut(gSimTime) /\ gSimTime' = gSimTime + 2
     ELSE gSimTime' = gSimTime
  /\ UNCHANGED <<trace, cmpPc, instrIdx, flag, dut, checked, logOut, released, exitStatus,
                 runCycles, pcDiverged>>

\* the Cycle of a wait loop meets the time limit
BusTimeout ==
  /\ cmpPc = "bus"
  /\ busPc \in BusWaits
  /\ CycleTimesOut(gSimTime)
  /\ TimeoutExit
  /\ UNCHANGED <<trace, instrIdx, flag, checked, runCycles, pcDiverged>>
  /\ UNCHANGED busVars

\* InitSim is done and the bench makes bus calls
InitTimedBus ==
  /\ trace = <<>>
  /\ cmpPc = "bus"
  /\ instrIdx = 1
  /\ flag = SUCCESS
  /\ gSimTime \in BusStartTimes
  /\ dut = DutReset
  /\ checked = <<>>
  /\ logOut = <<>>
  /\ released = [spike |-> "none", sim |-> FALSE]
  /\ exitStatus = "none"
  /\ runCycles = 0
  /\ pcDiverged = FALSE

NextTimed ==
  \/ /\ TimedBusStep \/ BusTimeout
     /\ UNCHANGED <<mboxVars, parserVars, storeVars, loadVars>>
  \/ NextCompare

\* the comparator enters run() on a list of at most one node and its terminal
InitTimedCmp == InitCmp /\ Len(trace) <= 2

InitTimed ==
  /\ InitBus /\ backend = "SIM" /\ InitMailboxOff /\ InitParserOff
  /\ InitStoreOff /\ InitLoadOff
  /\ InitTimedCmp \/ InitTimedBus

\* the simulated bench, bus calls and comparator, under the time limit
SpecTimed == InitTimed /\ [][NextTimed]_vars

\* the single thread of the bench always takes its next step
SpecTimedFair == SpecTimed /\ WF_vars(NextTimed)

(***************************************************************************)
(* Firmware loader: LoadFirmware of load.cpp                               *)
(***************************************************************************)
\* lines of a firmware file
MaxFwLines == 2

SOFTCORE_0_INSTR_RAM_START_ADDR == 0
SOFTCORE_0_INSTR_RAM_SIZE == 16384
SOFTCORE_0_DATA_RAM_START_ADDR == 65536
SOFTCORE_0_DATA_RAM_SIZE == 12288

\* a & 0x00FFFFFF
NormalizeAxiOffset(a) == a % 16777216

InRange(x, base, size) == x >= base /\ x < base + size

\* addresses written in a firmware file: instruction RAM, instruction RAM off
\* a word boundary, data RAM, the PTC region, and 0x01000004
FwAddrs == {0, 2, 65536, 131072, 16777220}

\* lines of a firmware file: blank, comment, "addr:data", anything else
FwLines ==
  {[kind |-> "blank"], [kind |-> "comment"], [kind |-> "junk"]}
    \cup {[kind |-> "word", addr |-> a] : a \in FwAddrs}

\* line[0] == '\0' || line[0] == '#' || "//"
IsSkippedFwLine(l) == l.kind \in {"blank", "comment"}

\* sscanf(line, "%x:%x", &addr, &data) == 2
ParsesAsWord(l) == l.kind = "word"

\* InstrMemReset / MemReset: the result of the first write that fails
MemResetResult(op, start) == EntryCheck(op, start, GranuleOf(op), FALSE)

\* the file cannot be opened, or the call starts working on it
LoadOpen ==
  /\ ldPc = "open"
  /\ \E ok \in BOOLEAN :
       IF ~ok
       THEN /\ ldOut' = [ldOut EXCEPT !.done = TRUE, !.ret = FAILURE, !.ioErr = TRUE]
            /\ ldPc' = "done"
       ELSE /\ ldPc' = IF backend = "HW" THEN "assert" ELSE "lines"
            /\ UNCHANGED ldOut
  /\ UNCHANGED <<fwFile, ldPos, nbErrors, coreReset>>

\* platform build: the reset handle is opened and the core reset asserted
LoadAssertReset ==
  /\ ldPc = "assert"
  /\ \E ok \in BOOLEAN :
       IF ~ok
       THEN /\ ldOut' = [ldOut EXCEPT !.done = TRUE, !.ret = FAILURE, !.ioErr = TRUE]
            /\ ldPc' = "done"
            /\ UNCHANGED coreReset
       ELSE /\ coreReset' = "asserted"
            /\ ldPc' = "clear"
            /\ UNCHANGED ldOut
  /\ UNCHANGED <<fwFile, ldPos, nbErrors>>

\* platform build: both memories are cleared; a failure is logged and
\* nothing else
LoadClear ==
  /\ ldPc = "clear"
  /\ LET ri == MemResetResult("InstrAxi4Write", SOFTCORE_0_INSTR_RAM_START_ADDR)
         rd == MemResetResult("Axi4Write", SOFTCORE_0_DATA_RAM_START_ADDR)
     IN ldOut' = [ldOut EXCEPT
                    !.failedClears = Cardinality({op \in {"i", "d"} :
                                        (IF op = "i" THEN ri ELSE rd) # SUCCESS})]
  /\ ldPc' = "lines"
  /\ UNCHANGED <<fwFile, ldPos, nbErrors, coreReset>>

\* one turn of the while (fgets) loop
LoadLine ==
  /\ ldPc = "lines"
  /\ ldPos <= Len(fwFile)
  /\ ldPos' = ldPos + 1
  /\ LET l == fwFile[ldPos]
         rel == NormalizeAxiOffset(l.addr)
         bad == /\ nbErrors' = (nbErrors + 1) % UWordMod
                /\ ldOut' = [ldOut EXCEPT !.lineErrs = @ + 1]
         write(op) ==
           IF EntryCheck(op, rel, AlignedSize(GranuleOf(op), GranuleOf(op)), FALSE) # SUCCESS
           THEN bad
           ELSE /\ ldOut' = [ldOut EXCEPT !.writes = Append(@, [op |-> op, addr |-> rel])]
                /\ UNCHANGED nbErrors
     IN IF IsSkippedFwLine(l)
        THEN UNCHANGED <<nbErrors, ldOut>>
        ELSE IF ~ParsesAsWord(l) THEN bad
        ELSE IF InRange(rel, SOFTCORE_0_INSTR_RAM_START_ADDR, SOFTCORE_0_INSTR_RAM_SIZE)
        THEN write("InstrAxi4Write")
        ELSE IF InRange(rel, SOFTCORE_0_DATA_RAM_START_ADDR, SOFTCORE_0_DATA_RAM_SIZE)
        THEN write("Axi4Write")
        ELSE bad
  /\ UNCHANGED <<fwFile, ldPc, coreReset>>

\* end of file: the reset is released when nbErrors is 0; on the platform the
\* reset handle may fail to open
LoadFinish ==
  /\ ldPc = "lines"
  /\ ldPos > Len(fwFile)
  /\ \E ok \in BOOLEAN :
       IF nbErrors = 0 /\ backend = "HW" /\ ~ok
       THEN /\ ldOut' = [ldOut EXCEPT !.done = TRUE, !.ret = FAILURE, !.ioErr = TRUE]
            /\ UNCHANGED coreReset
       ELSE /\ coreReset' = IF nbErrors = 0 THEN "released" ELSE coreReset
            /\ ldOut' = [ldOut EXCEPT !.done = TRUE,
                                      !.ret = IF nbErrors # 0 THEN FAILURE ELSE SUCCESS]
  /\ ldPc' = "done"
  /\ UNCHANGED <<fwFile, ldPos, nbErrors>>

\* the windows are mapped, or not, before LoadFirmware is called
LoadSetup ==
  /\ ldPc = "open"
  /\ \E p \in Ports : SetupAxi(p)
  /\ UNCHANGED loadVars

InitLoad ==
  /\ fwFile \in SeqsUpTo(FwLines, MaxFwLines)
  /\ ldPos = 1
  /\ ldPc = "open"
  /\ nbErrors = 0
  /\ coreReset = "asserted"
  /\ ldOut = [done |-> FALSE, ret |-> SUCCESS, ioErr |-> FALSE, lineErrs |-> 0,
              failedClears |-> 0, writes |-> <<>>]

LoadStep ==
  \/ LoadOpen
  \/ LoadAssertReset
  \/ LoadClear
  \/ LoadLine
  \/ LoadFinish

NextLoad ==
  \/ LoadSetup /\ UNCHANGED <<mboxVars, parserVars, cmpVars, storeVars>>
  \/ LoadStep /\ UNCHANGED <<busVars, mboxVars, parserVars, cmpVars, storeVars>>

InitLoader == InitBus /\ InitMailboxOff /\ InitParserOff /\ InitCmpOff /\ InitStoreOff
              /\ InitLoad

\* LoadFirmware on every firmware file of the bounded set, on both builds
SpecLoad == InitLoader /\ [][NextLoad]_vars

(***************************************************************************)
(* Properties of the bus layer                                             *)
(***************************************************************************)
\* addr or size of a call is not a multiple of the entry point's word size
Misaligned(c) == (c.addr % GranuleOf(c.op) # 0) \/ (c.size % GranuleOf(c.op) # 0)

\* the step in which an entry point is entered
IsBusCallStep == busPc = "idle" /\ nCalls' # nCalls

\* nothing on the pins, in time or in the backing store moves
BusUntouched == UNCHANGED <<drv, tgt, mem, cycles, awLog, wLog, bCount>>

\* C1 as stated: every call with a misaligned addr or size returns
\* ADDR_NOT_ALIGNED without driving a pin, advancing a cycle or changing the
\* backing store, whatever the other arguments are.
C1_AlignmentRejectedAlways ==
  [][(IsBusCallStep /\ Misaligned(call'))
       => (busPc' = "done" /\ ret' = ADDR_NOT_ALIGNED /\ BusUntouched)]_vars

\* C1 (amended): a call with a misaligned addr or size never returns SUCCESS
\* and drives no pin, advances no cycle and leaves the backing store
\* unchanged; it returns ADDR_NOT_ALIGNED when its data pointer is non-null,
\* its size is not zero and (hardware backend) the window is mapped.
C1_AlignmentRejected ==
  [][(IsBusCallStep /\ Misaligned(call'))
       => /\ busPc' = "done"
          /\ ret' # SUCCESS
          /\ BusUntouched
          /\ (/\ ~call'.dataNull
              /\ call'.size # 0
              /\ (backend = "HW" => gMapped[PortOf(call'.op)]))
               => ret' = ADDR_NOT_ALIGNED]_vars

\* C1 witness: a write of an aligned address and a size that is not a
\* multiple of the word size has returned the alignment error
C1_Witness ==
  /\ busPc = "done"
  /\ call.op = "Axi4Write"
  /\ ~call.dataNull
  /\ call.addr % NB_BYTES_IN_WORD = 0
  /\ call.size % NB_BYTES_IN_WORD # 0
  /\ ret = ADDR_NOT_ALIGNED

IsWriteOp(op) == op \in {"InstrAxi4Write", "Axi4Write"}

\* C20: on the hardware backend a call made while the window of its entry
\* point is not mapped returns INVALID_ADDR, which is not the alignment error,
\* and touches neither the window nor the caller's buffer; a call with a
\* non-null buffer and an aligned non-zero size made while the window is mapped
\* returns SUCCESS.
C20_UnmappedRejected ==
  [][(IsBusCallStep /\ backend = "HW")
       => /\ INVALID_ADDR # ADDR_NOT_ALIGNED
          /\ ~gMapped[PortOf(call'.op)]
               => (busPc' = "done" /\ ret' = INVALID_ADDR /\ BusUntouched
                   /\ rdBuf' = rdBuf)
          /\ (/\ gMapped[PortOf(call'.op)]
              /\ ~call'.dataNull
              /\ call'.size # 0
              /\ ~Misaligned(call'))
               => (busPc' = "done" /\ ret' = SUCCESS)]_vars

\* C21 as stated: every call with a null data pointer or a zero size returns
\* FAILURE without driving a pin, advancing a cycle or accessing memory.
C21_ArgErrorAlways ==
  [][(IsBusCallStep /\ (call'.dataNull \/ call'.size = 0))
       => (busPc' = "done" /\ ret' = FAILURE /\ BusUntouched /\ rdBuf' = rdBuf)]_vars

\* C21 (amended): a call with a null data pointer or a zero size never returns
\* SUCCESS, drives no pin, advances no cycle and accesses no memory; it
\* returns FAILURE on the simulated backend and, on the hardware backend,
\* when the window is mapped.
C21_ArgError ==
  [][(IsBusCallStep /\ (call'.dataNull \/ call'.size = 0))
       => /\ busPc' = "done"
          /\ ret' # SUCCESS
          /\ BusUntouched
          /\ rdBuf' = rdBuf
          /\ (backend = "HW" => gMapped[PortOf(call'.op)]) => ret' = FAILURE]_vars

\* C21 witness: a read of zero bytes into a buffer was refused
C21_Witness ==
  /\ busPc = "done"
  /\ call.op = "Axi4Read"
  /\ ~call.dataNull
  /\ call.size = 0
  /\ ret = FAILURE
  /\ cycles = 0

\* the step in which a helper hands its call to an entry point
IsHelperStep == IsBusCallStep /\ "helper" \in DOMAIN call'

\* C22: a helper called with a size that is not a multiple of the word size
\* returns ADDR_NOT_ALIGNED and transfers nothing.
C22_HelperRejectsMisaligned ==
  [][(IsHelperStep /\ call'.req % GranuleOf(call'.op) # 0)
       => (busPc' = "done" /\ ret' = ADDR_NOT_ALIGNED /\ BusUntouched
           /\ rdBuf' = rdBuf)]_vars

\* C20 witness: an aligned write with a buffer was refused on an unmapped window
C20_Witness ==
  /\ backend = "HW"
  /\ busPc = "done"
  /\ IsWriteOp(call.op)
  /\ ~gMapped[PortOf(call.op)]
  /\ ~call.dataNull
  /\ call.size # 0
  /\ ~Misaligned(call)
  /\ ret = INVALID_ADDR


\* the handshakes completed so far by a simulated write are the first beats
\* of the transfer, in order, one word each
C9_Beats ==
  (backend = "SIM" /\ IsWriteOp(call.op) /\ busPc # "idle") =>
    LET W == GranuleOf(call.op)
        n == call.size \div W
    IN /\ Len(awLog) <= n /\ Len(wLog) <= n /\ bCount <= n
       /\ \A k \in 1..Len(awLog) :
            /\ awLog[k].addr = call.addr + (k - 1) * W
            /\ awLog[k].len = 0
            /\ awLog[k].size = 2
       /\ \A k \in 1..Len(wLog) :
            /\ wLog[k].data = DataWord(k - 1)
            /\ wLog[k].last = 1
       /\ (busPc = "done" /\ ret = SUCCESS)
            => (Len(awLog) = n /\ Len(wLog) = n /\ bCount = n)

\* a word of a window changes only during a write to that window, inside
\* [addr, addr + size)
C9_Frame ==
  \A p \in Ports : \A w \in 0..(MemWords - 1) :
    mem'[p][w] # mem[p][w] =>
      /\ IsWriteOp(call'.op)
      /\ p = PortOf(call'.op)
      /\ w * NB_BYTES_IN_WORD >= call'.addr
      /\ w * NB_BYTES_IN_WORD < call'.addr + call'.size

\* C9: a simulated write of n words completes exactly n address, n data and
\* n response handshakes; beat i carries data word i to addr + i*W with burst
\* length one, in ascending order, and no word outside [addr, addr + n*W) is
\* written.
C9_SingleBeatWrites == [](C9_Beats) /\ [][C9_Frame]_vars

\* C9 witness: a three-word simulated write has returned SUCCESS
C9_Witness ==
  /\ backend = "SIM"
  /\ busPc = "done"
  /\ call.op = "Axi4Write"
  /\ call.size = 3 * NB_BYTES_IN_WORD
  /\ ret = SUCCESS
  /\ Len(awLog) = 3
  /\ mem["data"][(call.addr \div NB_BYTES_IN_WORD) + 2] = DataWord(2)

\* C10: at every moment of a simulated write at most one of awvalid, wvalid
\* and bready is asserted; the data phase of beat i is driven only after the
\* address handshake of beat i, the response phase only after its data
\* handshake, and the address phase of beat i+1 only after the response
\* handshake of beat i.
C10_PhasesSequential ==
  \A p \in Ports :
    /\ drv[p].awvalid + drv[p].wvalid + drv[p].bready <= 1
    /\ drv[p].awvalid = 1 =>
         (Len(awLog) = beatIdx /\ Len(wLog) = beatIdx /\ bCount = beatIdx)
    /\ drv[p].wvalid = 1 =>
         (Len(awLog) = beatIdx + 1 /\ Len(wLog) = beatIdx /\ bCount = beatIdx)
    /\ drv[p].bready = 1 =>
         (Len(awLog) = beatIdx + 1 /\ Len(wLog) = beatIdx + 1 /\ bCount = beatIdx)

\* C10 witness: the response phase of the second beat is being driven
C10_Witness ==
  /\ busPc = "b_wait"
  /\ beatIdx = 1
  /\ drv["data"].bready = 1
  /\ cycles > 4

\* the handshake signals the caller drives, each with the values it qualifies
\* and the signal of the target that accepts it
Handshakes ==
  {[valid |-> "awvalid", ready |-> "awready",
    payload |-> {"awaddr", "awburst", "awsize", "awlen"}],
   [valid |-> "wvalid", ready |-> "wready", payload |-> {"wdata", "wstrb", "wlast"}],
   [valid |-> "bready", ready |-> "bvalid", payload |-> {}],
   [valid |-> "arvalid", ready |-> "arready",
    payload |-> {"araddr", "arburst", "arsize", "arlen"}],
   [valid |-> "rready", ready |-> "rvalid", payload |-> {}]}

\* an asserted signal is held with its values, or dropped in a step that saw
\* the acceptance of the target and made one full cycle
HeldUntilAccepted(p, h) ==
  drv[p][h.valid] = 1 =>
    IF drv'[p][h.valid] = 1
    THEN \A f \in h.payload : drv'[p][f] = drv[p][f]
    ELSE tgt[p][h.ready] = 1 /\ cycles' = cycles + 1

\* C26: on the simulated backend every handshake signal the caller drives
\* stays asserted with unchanged address, data and control values until the
\* matching signal of the target was observed asserted and one further full
\* cycle has elapsed; it is never deasserted before.
C26_HeldUntilAccepted ==
  [][\A p \in Ports : \A h \in Handshakes : HeldUntilAccepted(p, h)]_vars

\* C26 witness: the data of the first beat was accepted after two cycles of
\* waiting and wvalid is deasserted
C26_Witness ==
  /\ backend = "SIM"
  /\ busPc = "b"
  /\ beatIdx = 0
  /\ drv[PortOf(call.op)].wvalid = 0
  /\ Len(wLog) = 1
  /\ cycles = 4

\* the words captured so far by a read that passed the entry checks are those
\* of its read handshakes, one per beat
ReadWordsAreHandshakes ==
  (backend = "SIM" /\ call.op = "Axi4Read" /\ busPc # "idle"
     /\ ~(busPc = "done" /\ ret # SUCCESS)) =>
    /\ Len(rdBuf) = Len(wLog)
    /\ Len(rdBuf) = beatIdx
    /\ \A i \in 1..Len(rdBuf) : rdBuf[i] = wLog[i].data

\* a word is captured only with response-valid observed, it is the read data
\* of that moment, and read-ready is dropped in the step of the capture only
CaptureOnValid ==
  (backend = "SIM" /\ busPc # "idle") =>
    LET p == PortOf(call.op) IN
    /\ rdBuf' # rdBuf =>
         /\ tgt[p].rvalid = 1
         /\ drv[p].rready = 1
         /\ rdBuf' = Append(rdBuf, RData(p))
    /\ (drv[p].rready = 1 /\ drv'[p].rready = 0) => Len(rdBuf') = Len(rdBuf) + 1

\* C27: for every beat i of a simulated read, data[i] is the read data present
\* when response-valid was observed in the response phase of that beat: no
\* word is captured before response-valid is observed, exactly one word is
\* captured per beat, and read-ready is deasserted only after the capture.
C27_ReadCapture == [](ReadWordsAreHandshakes) /\ [][CaptureOnValid]_vars

\* C27 witness: a two-word read has returned what the window holds after a
\* turn in a wait loop
C27_Witness ==
  /\ backend = "SIM"
  /\ busPc = "done"
  /\ call.op = "Axi4Read"
  /\ ret = SUCCESS
  /\ Len(rdBuf) = 2
  /\ cycles = 5

(***************************************************************************)
(* Mailbox properties                                                      *)
(***************************************************************************)
IsPrefix(s, t) == Len(s) <= Len(t) /\ \A i \in 1..Len(s) : s[i] = t[i]

\* C2: on the platform-to-core channel with the echo firmware, the messages the
\* core has read are, in order and once each, the messages the platform has
\* published, and the data window never holds a later message than the first
\* one the core has not acknowledged yet.
C2_ExactlyOnceInOrder ==
  firmware = "echo" =>
    /\ IsPrefix(consumed["ptc"], published["ptc"])
    /\ shm["PTC_DATA"].msg <= shm["CTP_PLATFORM_COUNT"] + 1

\* C3: under the fair schedule every Eprintf call that waits for write-ready
\* returns, and every message published on the core-to-platform channel is
\* eventually acknowledged by the platform.
C3_EprintfNeverDeadlocks ==
  /\ (corePc = "ep_spin") ~> (corePc = "ep_idle")
  /\ (shm["CTP_CORE_COUNT"] # shm["PTC_CORE_COUNT"])
       ~> (shm["CTP_CORE_COUNT"] = shm["PTC_CORE_COUNT"])

\* C4: a read-ready check that reported a message returned the size of the
\* newest message whose counter increment had happened at the check, and the
\* payload read after it is the payload of that same message.
C4_ReadReadyFresh ==
  \A ch \in Channels :
    readyAt[ch].size # 0 =>
      /\ readyAt[ch].size = readyAt[ch].pub
      /\ readyAt[ch].data # 0 => readyAt[ch].data = readyAt[ch].pub

\* C5: on the platform side a SharedWriteReady check that reports ready is
\* followed, when no acknowledge of the core comes in between, by a check that
\* reports busy: after a ready check the token is ahead of the counter.
C5_WriteReadyOnce ==
  /\ \A i \in 1..(Len(wrHist) - 1) : wrHist[i] = "ready" => wrHist[i + 1] # "ready"
  /\ (Len(wrHist) > 0 /\ wrHist[Len(wrHist)] = "ready")
       => platCnt.writeReady # shm["CTP_PLATFORM_COUNT"]

C5_Witness ==
  \E i \in 1..(Len(wrHist) - 1) : wrHist[i] = "ready" /\ wrHist[i + 1] = "busy"

\* message and byte count the core is publishing
CorePublishing ==
  IF firmware = "echo"
  THEN [msg |-> Len(published["ctp"]) + 1, bytes |-> coreBuf.len]
  ELSE [msg |-> epMsg.msg, bytes |-> epMsg.count]

C6_Written ==
  \A ch \in Channels :
    Len(published[ch]) > 0 =>
      LET last == published[ch][Len(published[ch])]
          data == IF ch = "ptc" THEN shm["PTC_DATA"] ELSE shm["CTP_DATA"]
          size == IF ch = "ptc" THEN shm["PTC_DATA_SIZE"] ELSE shm["CTP_DATA_SIZE"]
      IN data.msg >= last /\ size.msg >= last

C6_Step ==
  /\ shm'["PTC_PLATFORM_COUNT"] = Inc(shm["PTC_PLATFORM_COUNT"])
       => /\ shm["PTC_DATA"] = [msg |-> platIn.msg,
                                len |-> AlignUp(stdinSize, NB_BYTES_IN_WORD)]
          /\ shm["PTC_DATA_SIZE"] = [msg |-> platIn.msg, bytes |-> stdinSize]
  /\ shm'["CTP_CORE_COUNT"] = Inc(shm["CTP_CORE_COUNT"])
       => /\ shm["CTP_DATA"] = [msg |-> CorePublishing.msg, len |-> CorePublishing.bytes]
          /\ shm["CTP_DATA_SIZE"] = CorePublishing
  /\ (shm'["PTC_DATA_SIZE"].msg # shm["PTC_DATA_SIZE"].msg /\ shm'["PTC_DATA_SIZE"].msg # 0)
       => shm["PTC_DATA"].msg = shm'["PTC_DATA_SIZE"].msg
  /\ (shm'["CTP_DATA_SIZE"].msg # shm["CTP_DATA_SIZE"].msg /\ shm'["CTP_DATA_SIZE"].msg # 0)
       => shm["CTP_DATA"].msg = shm'["CTP_DATA_SIZE"].msg

\* C6: on every publish path the data window is written first, then the size
\* field, and the producer counter is incremented last: at each increment the
\* window and the size field hold the message being published, and the fields
\* of the last published message are never still unwritten.
C6_PublishOrder == [](C6_Written) /\ [][C6_Step]_vars

C6_Witness ==
  /\ firmware = "echo"
  /\ Len(published["ptc"]) >= 1
  /\ Len(published["ctp"]) >= 1
  /\ nextEp = 1

\* C7: a consumer increments its acknowledge counter only when its last read
\* of the data window covered the whole message the read-ready check reported.
C7_AckAfterRead ==
  [][ /\ (corePc = "rd_ack" /\ shm'["CTP_PLATFORM_COUNT"] # shm["CTP_PLATFORM_COUNT"])
           => coreBuf.len >= coreSize
      /\ (platPc = "recv_ack" /\ shm'["PTC_CORE_COUNT"] # shm["PTC_CORE_COUNT"])
           => platBuf.len >= ctpSize ]_vars

\* C8: each counter of the platform-to-core region is written by the platform
\* only and each counter of the core-to-platform region by the core only.
C8_SingleWriter ==
  \A c \in Counters :
    writers[c] \subseteq {IF RegionOf(c) = "ptc" THEN "platform" ELSE "core"}

C8_Witness == \A c \in Counters : writers[c] # {}

(***************************************************************************)
(* Properties of the trace parser                                          *)
(***************************************************************************)
\* C11: in the list Parse returns, every node whose mnemonic is not the
\* terminal token has a next node.
C11_NonTerminalHasNext ==
  parsePc = "done" =>
    \A i \in 1..Len(instrList) : ~IsEbreak(instrList[i].instr) => i < Len(instrList)

\* the value each address field of the log denotes
LoggedValue(a) ==
  CASE a = AddrBelow -> 8188
    [] a = AddrA -> 8192
    [] a = AddrB -> 32772

\* the file holds an in-range record A, an in-range record B and the ebreak
\* record, each of A and B with its result line
IsABEbreak(f) ==
  /\ Len(f.lines) = 5
  /\ f.lines[1].kind = "ins" /\ f.lines[1].asm = ADDI /\ f.lines[1].addr # AddrBelow
  /\ f.lines[2].kind = "res"
  /\ f.lines[3].kind = "ins" /\ f.lines[3].asm = ADDI /\ f.lines[3].addr # AddrBelow
  /\ f.lines[4].kind = "res"
  /\ f.lines[5].kind = "ins" /\ f.lines[5].asm = EBREAK /\ f.lines[5].addr # AddrBelow

\* C12: a log of in-range records A, B and the ebreak record parses to three
\* nodes, A then B then the terminal node, with the logged addresses.
C12_ThreeNodes ==
  (parsePc = "done" /\ IsABEbreak(spikeFile)) =>
    /\ Len(instrList) = 3
    /\ \A i \in 1..3 : instrList[i].addr = LoggedValue(spikeFile.lines[2 * i - 1].addr)
    /\ instrList[1].instr = ADDI
    /\ instrList[2].instr = ADDI
    /\ IsEbreak(instrList[3].instr)

\* C13: no node of the list Parse returns has an address below the threshold.
C13_NoneBelowThreshold ==
  parsePc = "done" => \A i \in 1..Len(instrList) : instrList[i].addr >= SPIKE_THRESHOLD

(***************************************************************************)
(* Properties of the comparator                                            *)
(***************************************************************************)
\* byte k of the backing word counted from the byte the store addresses
ByteFrom(raw, off, k) == IF off + k <= NB_BYTES_IN_WORD THEN raw[off + k] ELSE 0

\* width in bytes the claim gives each funct3
ClaimedBytes(f3) == IF f3 = 0 THEN 1 ELSE IF f3 = 1 THEN 2 ELSE 4

\* the store node of the example: SB of 0xAB at 0x1000
IsExampleStore(i) ==
  /\ Funct3(i.instr_bin) = 0
  /\ i.mem_addr = 4096
  /\ i.mem_data = <<171, 0, 0, 0>>

\* C17: the store check passes exactly when the bytes of the backing word from
\* the byte offset of mem_address on, as many as the store is wide, equal the
\* low bytes of mem_value; the byte store of 0xAB at 0x1000 passes on a word
\* 0x000000AB and fails on 0x000000CD with expected 0xAB, actual 0xCD.
C17_StoreCheck ==
  vmOut.done =>
    LET i == vmIn.instr
        raw == vmIn.mem[WordIndex(i.mem_addr)]
        off == i.mem_addr % NB_BYTES_IN_WORD
        n == ClaimedBytes(Funct3(i.instr_bin))
    IN /\ (vmOut.res.ret = SUCCESS) <=>
            (\A k \in 1..n : ByteFrom(raw, off, k) = i.mem_data[k])
       /\ vmOut.res.ret \in {SUCCESS, FAILURE}
       /\ (IsExampleStore(i) /\ raw = <<171, 0, 0, 0>>) => vmOut.res.ret = SUCCESS
       /\ (IsExampleStore(i) /\ raw = <<205, 0, 0, 0>>) =>
            /\ vmOut.res.ret = FAILURE
            /\ vmOut.res.logged
            /\ vmOut.res.expected = <<171, 0, 0, 0>>
            /\ vmOut.res.actual = <<205, 0, 0, 0>>

C17_Witness ==
  /\ vmOut.done
  /\ IsExampleStore(vmIn.instr)
  /\ vmIn.mem[WordIndex(4096)] = <<205, 0, 0, 0>>
  /\ vmOut.res.ret = FAILURE

\* some check of the run reported a mismatch
SomeMismatch == \E i \in DOMAIN checked : checked[i].ret # SUCCESS

\* the trace was parsed and the firmware loaded
RunLoaded == dut.loaded /\ released.spike # "none"

\* main has received the value run() returned and logged it
VerdictLogged(t) == \E i \in DOMAIN logOut : logOut[i] = [kind |-> "verdict", text |-> t]

\* the log names instruction i as failing
MismatchLogged(i) == \E j \in DOMAIN logOut : logOut[j] = [kind |-> "mismatch", idx |-> i]

\* C14: in a run whose trace and firmware loaded, the flag run() holds, the
\* verdict main logs and the status main returns are FAILURE exactly when
\* some check performed so far reported a mismatch, and SUCCESS when every
\* check passed.
C14_VerdictIsConjunction ==
  RunLoaded =>
    /\ flag \in {SUCCESS, FAILURE}
    /\ (flag = FAILURE) <=> SomeMismatch
    /\ VerdictLogged("FAILURE") <=> (SomeMismatch /\ cmpPc \in {"finalize", "exit", "exited"}
                                      /\ released.spike = "freed")
    /\ VerdictLogged("SUCCESS") => ~SomeMismatch
    /\ (cmpPc = "exited" /\ VerdictLogged("FAILURE")) => exitStatus = "EXIT_FAILURE"
    /\ (cmpPc = "exited" /\ VerdictLogged("SUCCESS")) => exitStatus = "EXIT_SUCCESS"

C14_Witness ==
  /\ RunLoaded
  /\ Len(checked) = 2
  /\ checked[1].ret = SUCCESS
  /\ checked[2].ret = FAILURE
  /\ VerdictLogged("FAILURE")
  /\ exitStatus = "EXIT_FAILURE"

\* C15: a run over a trace that ends with the terminal node, once it has
\* returned, has checked every instruction before the terminal node, whatever
\* the results of the earlier checks.
C15_ChecksEveryInstruction ==
  (/\ RunLoaded
   /\ Len(trace) > 0
   /\ IsEbreak(trace[Len(trace)].instr)
   /\ (VerdictLogged("FAILURE") \/ VerdictLogged("SUCCESS")))
    => Len(checked) = Len(trace) - 1

\* C16: a run in which the design retired an instruction at a program counter
\* other than the address of its reference node has verdict FAILURE.
C16_WrongPcFails ==
  (/\ RunLoaded
   /\ pcDiverged
   /\ (VerdictLogged("FAILURE") \/ VerdictLogged("SUCCESS")))
    => (flag = FAILURE /\ VerdictLogged("FAILURE"))

C19_MismatchExitsFailure ==
  (cmpPc = "exited" /\ SomeMismatch) =>
    /\ exitStatus = "EXIT_FAILURE"
    /\ MismatchLogged(checked[Len(checked)].idx)
    /\ released = [spike |-> "freed", sim |-> TRUE]

(***************************************************************************)
(* Properties of the firmware loader                                       *)
(***************************************************************************)
\* an error occurred while loading: a line in error, a failed write of the
\* clearing, or a file that could not be opened
LoadError == ldOut.lineErrs > 0 \/ ldOut.failedClears > 0 \/ ldOut.ioErr

\* C23: once LoadFirmware has returned, the core reset is released exactly
\* when no error occurred while loading; with an error the call returns
\* FAILURE, without one it returns SUCCESS; blank and comment lines are not
\* errors and a line outside both regions is not written.
C23_ResetIffNoError ==
  ldOut.done =>
    /\ (coreReset = "released") <=> ~LoadError
    /\ LoadError => ldOut.ret = FAILURE
    /\ ~LoadError => ldOut.ret = SUCCESS
    /\ \A i \in DOMAIN ldOut.writes :
         \/ InRange(ldOut.writes[i].addr, SOFTCORE_0_INSTR_RAM_START_ADDR,
                    SOFTCORE_0_INSTR_RAM_SIZE)
         \/ InRange(ldOut.writes[i].addr, SOFTCORE_0_DATA_RAM_START_ADDR,
                    SOFTCORE_0_DATA_RAM_SIZE)

(***************************************************************************)
(* Properties of the wait loops under the time limit                       *)
(***************************************************************************)
\* an entry point of the simulated backend is inside its beat loop
BusActive == cmpPc = "bus" /\ busPc \notin {"idle", "done"}

\* the signal the entry point is waiting for is low
AwaitedLow ==
  /\ cmpPc = "bus"
  /\ \/ busPc = "aw_wait" /\ tgt[PortOf(call.op)].awready = 0
     \/ busPc = "w_wait" /\ tgt[PortOf(call.op)].wready = 0
     \/ busPc = "b_wait" /\ tgt[PortOf(call.op)].bvalid = 0
     \/ busPc = "ar_wait" /\ tgt[PortOf(call.op)].arready = 0
     \/ busPc = "r_wait" /\ tgt[PortOf(call.op)].rvalid = 0

\* in every phase the target asserts the awaited signal after finitely many cycles
TargetResponds == []<>~AwaitedLow

\* handshakes the target has seen are those of exactly n beats
BeatsCompleted(n) ==
  /\ Len(awLog) = n
  /\ Len(wLog) = n
  /\ bCount = IF call.op = "Axi4Read" THEN 0 ELSE n

\* the call has returned SUCCESS after exactly size / W beats
BusSucceeded ==
  /\ cmpPc = "bus"
  /\ busPc = "done"
  /\ ret = SUCCESS
  /\ BeatsCompleted(call.size \div GranuleOf(call.op))

\* Tick has met the time limit
CeilingReached == cmpPc \in {"tick2", "exited"}

\* a turn of one of the wait loops of an entry point
IsBusWaitTurn ==
  /\ cmpPc = "bus" /\ cmpPc' = "bus"
  /\ busPc \in BusWaits
  /\ busPc' = busPc

\* C24 as stated: when the target asserts every awaited signal after finitely
\* many cycles, a call that has entered its beat loop returns SUCCESS after
\* exactly n beats
C24_AlwaysSucceeds == TargetResponds => (BusActive ~> BusSucceeded)

\* C24: when the target asserts every awaited signal after finitely many
\* cycles, a call that has entered its beat loop either returns SUCCESS after
\* exactly n beats or is cut by the time limit of Tick, which ends the
\* process; a call that returns SUCCESS has completed exactly n beats, and
\* every turn of a wait loop advances one full cycle
C24_SucceedsOrCeiling ==
  /\ []((cmpPc = "bus" /\ busPc = "done" /\ ret = SUCCESS)
          => BeatsCompleted(call.size \div GranuleOf(call.op)))
  /\ [][IsBusWaitTurn => (cycles' = cycles + 1 /\ gSimTime' = gSimTime + 2)]_vars
  /\ (TargetResponds => (BusActive ~> (BusSucceeded \/ CeilingReached)))

\* a read of two beats returned SUCCESS after one turn in a wait loop
C24_Witness ==
  /\ BusSucceeded
  /\ call.op = "Axi4Read"
  /\ call.size = 2 * NB_BYTES_IN_WORD
  /\ cycles = 5

\* a wait loop of an entry point, or the comparator waiting for a commit
Waiting ==
  \/ cmpPc = "bus" /\ busPc \in BusWaits
  \/ cmpPc = "loop" /\ instrIdx <= Len(trace) /\ LoopContinues(trace[instrIdx])
  \/ cmpPc = "tick2"

\* C25: every wait is bounded by the time limit: the time never passes
\* MAX_SIM_TIME, a wait that finds the limit reached ends the process without
\* advancing the time or evaluating the design, and every run leaves its
\* waits for good
C25_CeilingBoundsWaits ==
  /\ [](gSimTime <= MaxTicks)
  /\ [][(Waiting /\ TimedOut(gSimTime))
         => /\ cmpPc' = "exited"
            /\ exitStatus' = "EXIT_SUCCESS"
            /\ gSimTime' = gSimTime
            /\ tgt' = tgt /\ mem' = mem /\ awLog' = awLog /\ wLog' = wLog
            /\ dut' = [dut EXCEPT !.alive = FALSE]]_vars
  /\ <>[]~Waiting

\* a target that never accepts the address: the call is ended by the limit
C25_Witness ==
  /\ cmpPc = "exited"
  /\ busPc = "aw_wait"
  /\ awLog = <<>>
  /\ tgt[PortOf(call.op)].awready = 0
  /\ gSimTime = MaxTicks
  /\ logOut = <<[kind |-> "timeout"]>>

(***************************************************************************)
(* Properties of the comparison loop                                       *)
(***************************************************************************)
\* C28: every check is made on the design as it is at the time the
\* writeback-valid strobe was tested: no cycle is advanced between the test
\* of the strobe and the check.
C28_CheckAtStrobe ==
  \A i \in DOMAIN checked : checked[i].at = checked[i].sampled

\* an iteration of the loop of run() that runs to its end
IsLoopIteration ==
  /\ cmpPc = "loop"
  /\ instrIdx <= Len(trace)
  /\ LoopContinues(trace[instrIdx])
  /\ cmpPc' \in {"loop", "final"}

\* one full cycle per iteration; the pointer moves by one node exactly when
\* the strobe was sampled asserted and the check passed
IterationAdvances ==
  IsLoopIteration =>
    /\ runCycles' = runCycles + 1
    /\ gSimTime' = gSimTime + 2
    /\ IF dut.wb_valid = 1 /\ Len(checked') = Len(checked) + 1
          /\ checked'[Len(checked')].ret = SUCCESS
       THEN instrIdx' = instrIdx + 1
       ELSE instrIdx' = instrIdx
    /\ dut.wb_valid = 1 <=> Len(checked') = Len(checked) + 1

\* the nodes checked so far are the first nodes of the list, in order, each
\* once, and the pointer is on the node after the last one that passed
CheckedInOrder ==
  /\ \A i \in DOMAIN checked : checked[i].idx = i
  /\ \A i \in DOMAIN checked : i < Len(checked) => checked[i].ret = SUCCESS
  /\ cmpPc \in {"loop", "final", "free"} =>
       instrIdx = Cardinality({i \in DOMAIN checked : checked[i].ret = SUCCESS}) + 1

\* C29: every iteration of the comparison loop advances exactly one full
\* cycle, and the reference pointer moves forward by exactly one node in an
\* iteration if and only if the strobe was sampled asserted in that iteration
\* and the check passed; the nodes are checked in program order, none skipped
\* and none checked twice.
C29_OneCycleOneNode == [](CheckedInOrder) /\ [][IterationAdvances]_vars

\* C29 witness: two nodes checked in three iterations, the pointer on the
\* third node
C29_Witness ==
  /\ cmpPc = "loop"
  /\ Len(checked) = 2
  /\ checked[2].ret = SUCCESS
  /\ runCycles = 3
  /\ instrIdx = 3

(***************************************************************************)
(* Properties of the check of SYSTEM instructions                          *)
(***************************************************************************)
\* C30: for a SYSTEM instruction the check passes for CSR 0xB00 iff the
\* destination register equals the cycle counter minus 4, for CSR 0xB03 iff it
\* equals the stall counter minus 2, for CSR 0xB04 iff it equals the
\* taken-branch counter, all modulo 2^XLEN; every other SYSTEM instruction
\* yields FAILURE.
C30_CsrOffsets ==
  (vmOut.done /\ "d" \in DOMAIN vmIn /\ Opcode(vmIn.instr.instr_bin) = 115) =>
    LET csr == vmIn.instr.instr_bin.hi
        d == vmIn.d
        pass == vmOut.res.ret = SUCCESS
    IN /\ vmOut.res.ret \in {SUCCESS, FAILURE}
       /\ csr = 2816 => (pass <=> (d.gpr + 4) % XLenMod = d.mhpm0)
       /\ csr = 2819 => (pass <=> (d.gpr + 2) % XLenMod = d.mhpm3)
       /\ csr = 2820 => (pass <=> d.gpr = d.mhpm4)
       /\ csr \notin {2816, 2819, 2820} => ~pass

\* C30 witness: a read of the cycle counter passes on a counter that wrapped
C30_Witness ==
  /\ vmOut.done
  /\ "d" \in DOMAIN vmIn
  /\ vmIn.instr.instr_bin.hi = 2816
  /\ vmIn.d.mhpm0 = 3
  /\ vmIn.d.gpr = XLenMod - 1
  /\ vmOut.res.ret = SUCCESS

\* C31: verify_gpr writes the design only after a read of CSR 0xB00 whose
\* comparison with the cycle counter minus 4 succeeded: the destination
\* register then holds the reference value, no time has passed and the
\* injection enable is low again; after a failed comparison and for every
\* other instruction the register file is as it was.
C31_ForceOnlyOnCycleCounter ==
  (vmOut.done /\ "after" \in DOMAIN vmOut) =>
    LET i == vmIn.instr
        d == vmIn.d
        matched == /\ Opcode(i.instr_bin) = 115
                   /\ i.instr_bin.hi = 2816
                   /\ (d.gpr + 4) % XLenMod = d.mhpm0
    IN /\ vmOut.after.ticks = 0
       /\ vmOut.after.GprEn = 0
       /\ matched => /\ vmOut.after.regs[i.rd] = i.rd_data
                     /\ \A r \in GprRegs \ {i.rd} : vmOut.after.regs[r] = d.regs[r]
                     /\ vmOut.after.combs = 1
       /\ ~matched => vmOut.after.regs = d.regs /\ vmOut.after.combs = 0

\* C31 witness: a matching read of the cycle counter replaces the value of the
\* destination register by the reference value
C31_Witness ==
  /\ vmOut.done
  /\ "after" \in DOMAIN vmOut
  /\ vmIn.instr.instr_bin = [hi |-> 2816, lo |-> 5 * 128 + 115]
  /\ vmIn.d.mhpm0 = 4
  /\ vmIn.d.regs[5] = 0
  /\ vmOut.after.regs[5] = 7

(***************************************************************************)
(* Destination register of the parsed nodes                                *)
(***************************************************************************)
\* no line of the log carries a register writeback field
NoWritebackLogged == \A i \in 1..Len(spikeFile.lines) : ~HasWriteback(spikeFile.lines[i])

\* C32: a node whose record logged no register writeback holds a negative
\* destination register; here for a log none of whose records logged one.
C32_SentinelWithoutWriteback ==
  (parsePc = "done" /\ NoWritebackLogged) =>
    \A i \in 1..Len(instrList) : instrList[i].rd < 0

\* a log with writebacks is parsed: the node holds the logged register
C32_WritebackParsed ==
  /\ parsePc = "done"
  /\ Len(instrList) >= 1
  /\ instrList[1].rd = 31
  /\ instrList[1].rd_data = 7

(***************************************************************************)
(* Blank and comment lines of the log                                      *)
(***************************************************************************)
\* the same log with its blank, comment and ">>>>" lines removed; the line
\* that becomes the last one keeps its newline
WithoutSkipped(f) ==
  LET n == Len(f.lines)
  IN [lines |-> SelectSeq(f.lines, LAMBDA l : ~IsSkipped(l)),
      eofNl |-> IF n > 0 /\ IsSkipped(f.lines[n]) THEN TRUE ELSE f.eofNl]

\* a log of two-line records closed by an ebreak line
IsTwoLineLog(ls) ==
  /\ Len(ls) % 2 = 1
  /\ \A i \in 1..Len(ls) : ls[i].kind = (IF i % 2 = 1 THEN "ins" ELSE "res")
  /\ \A i \in 1..Len(ls) : (ls[i].kind = "ins" /\ ls[i].asm = EBREAK) <=> i = Len(ls)

\* C33: a blank or comment line creates no node and alters none: the list
\* Parse returns equals the list it returns for the same log without those
\* lines; here for logs that are two-line records closed by ebreak once the
\* blank and comment lines are taken out.
C33_SkippedLinesLeaveNoTrace ==
  (parsePc = "done" /\ IsTwoLineLog(WithoutSkipped(spikeFile).lines)) =>
    instrList = ParseFrom(WithoutSkipped(spikeFile), 1, <<EmptyNode>>)

\* a blank line met where an instruction line is expected is skipped: the log
\* blank, addi, result, ebreak gives the two nodes of addi, result, ebreak
C33_SkippedBeforeRecord ==
  /\ parsePc = "done"
  /\ Len(spikeFile.lines) = 4
  /\ IsSkipped(spikeFile.lines[1])
  /\ spikeFile.lines[2] = InsLine(AddrA, ADDI)
  /\ spikeFile.lines[3].kind = "res"
  /\ spikeFile.lines[4] = InsLine(AddrB, EBREAK)
  /\ Len(instrList) = 2
  /\ instrList = ParseFrom(WithoutSkipped(spikeFile), 1, <<EmptyNode>>)

(***************************************************************************)
(* Ready checks of the mailbox                                             *)
(***************************************************************************)
\* a step of the polling loop that is its SharedReadReady call
IsPlatReadReadyStep ==
  /\ platPc = "poll"
  /\ platPc' \in {"poll", "recv_data"}
  /\ nextMsg' = nextMsg
  /\ shm' = shm
  /\ corePc' = corePc

\* C34: the platform's SharedReadReady returns zero exactly when the counter
\* of the core is not ahead of its local count, which it then leaves as it is;
\* when the counter is ahead it returns the size field and advances the local
\* count by one.
C34_ReadReadyZeroIffIdle ==
  [][IsPlatReadReadyStep =>
       LET pending == shm["CTP_CORE_COUNT"] > platCnt.readReady
       IN /\ (ctpSize' = 0) <=> ~pending
          /\ ~pending => platCnt'.readReady = platCnt.readReady
          /\ pending => /\ ctpSize' = shm["CTP_DATA_SIZE"].bytes
                        /\ platCnt'.readReady = Inc(platCnt.readReady)]_vars

\* what does hold of the call: zero whenever nothing is pending, the size
\* field and one step of the local count whenever something is
C34_ReadReadyReturnsSize ==
  [][IsPlatReadReadyStep =>
       LET pending == shm["CTP_CORE_COUNT"] > platCnt.readReady
       IN /\ ~pending => ctpSize' = 0 /\ platCnt'.readReady = platCnt.readReady
          /\ pending => /\ ctpSize' = shm["CTP_DATA_SIZE"].bytes
                        /\ platCnt'.readReady = Inc(platCnt.readReady)]_vars

\* C35: on the core side a SharedWriteReady check that reports ready is
\* followed, when nothing happens in between, by a check that reports busy.
C35_CoreWriteReadyOnce ==
  \A i \in 1..(Len(wrHist) - 1) : wrHist[i] = "ready" => wrHist[i + 1] # "ready"

\* the core-side check does report busy between a publish and its acknowledge
C35_BusyUntilAck ==
  /\ Len(wrHist) = 4
  /\ wrHist = <<"publish", "busy", "ack", "ready">>

(***************************************************************************)
(* The two backends of the bus layer                                       *)
(***************************************************************************)
\* a call has returned: its status, the window and the words read are what
\* the mapped window of the hardware build gives for the same call
SameAsMapped ==
  (busPc = "done" /\ call.op # "none") =>
    LET p == PortOf(call.op)
        beats == BeatsOf(call.op, call.size)
    IN /\ ret = EntryCheckNoMap(call.op, call.addr, call.size, call.dataNull)
       /\ call.op = "Axi4Write" => mem = HwStore(mem, p, call.addr, beats)
       /\ call.op = "Axi4Read" =>
            /\ backend = "SIM" => Len(rdBuf) = beats
            /\ \A i \in 0..(beats - 1) :
                 (IF backend = "SIM" THEN rdBuf[i + 1] ELSE rdBuf[i])
                   = HwLoad(mem, p, call.addr, beats)[i]

\* the window changes only inside the range of a write in progress
OnlyRangeWritten ==
  \A p \in Ports : \A w \in 0..(MemWords - 1) :
    mem'[p][w] # mem[p][w] =>
      /\ call'.op = "Axi4Write"
      /\ p = PortOf(call'.op)
      /\ w \in {x \in 0..(MemWords - 1) :
                  /\ x >= call'.addr \div NB_BYTES_IN_WORD
                  /\ x < (call'.addr \div NB_BYTES_IN_WORD) + BeatsOf(call'.op, call'.size)}

\* C36: for valid writes and reads of the data window the simulated backend,
\* against a target that accepts every phase, and the hardware backend on a
\* mapped window return the same status, leave the same words in the window
\* and read the same words; a read of a range just written returns the words
\* written.
C36_BackendsAgree == [](SameAsMapped) /\ [][OnlyRangeWritten]_vars

\* C36 witness: on the simulated backend a read has returned the two words
\* the call before it wrote
C36_Witness ==
  /\ backend = "SIM"
  /\ busPc = "done"
  /\ nCalls = 2
  /\ call.op = "Axi4Read"
  /\ call.size = 2 * NB_BYTES_IN_WORD
  /\ rdBuf = <<DataWord(0), DataWord(1)>>

(***************************************************************************)
(* Counters of the two channels                                            *)
(***************************************************************************)
\* producer counter and acknowledge counter of a channel
ProducerCount(ch) == IF ch = "ptc" THEN shm[PlatWriteAckAddr] ELSE shm[CoreWriteAckAddr]
AckCount(ch) == IF ch = "ptc" THEN shm[CoreReadAckAddr] ELSE shm[PlatReadAckAddr]

\* C37: once the firmware runs, in each channel the acknowledge counter never
\* exceeds the producer counter and the producer counter is never more than
\* one ahead of the acknowledge counter.
C37_CountersInStep ==
  corePc \notin {"off", "reset"} =>
    \A ch \in Channels :
      /\ AckCount(ch) <= ProducerCount(ch)
      /\ ProducerCount(ch) <= AckCount(ch) + 1

\* the acknowledge counter of the platform-to-core channel is ahead of the
\* producer counter
C37_AckAhead ==
  /\ corePc \notin {"off", "reset"}
  /\ AckCount("ptc") > ProducerCount("ptc")

\* the producer counter of the platform-to-core channel is two ahead
C37_ProducerTwoAhead ==
  /\ corePc \notin {"off", "reset"}
  /\ ProducerCount("ptc") > AckCount("ptc") + 1

(***************************************************************************)
(* Size of the published payloads                                          *)
(***************************************************************************)
\* C38: the payload a publish writes to a data window, rounded up to words,
\* fits into the window: the region without its three header words.
C38_PayloadFitsWindow ==
  /\ AlignUp(shm["PTC_DATA"].len, NB_BYTES_IN_WORD) <= WindowCapacity
  /\ AlignUp(shm["CTP_DATA"].len, NB_BYTES_IN_WORD) <= WindowCapacity

\* the payloads of the echo firmware do fit: a chunk is at most its buffer
C38_EchoChunkFits ==
  /\ firmware = "echo"
  /\ Len(published["ctp"]) = 2
  /\ shm["CTP_DATA"].len = ECHO_BUF_BYTES
  /\ shm["CTP_DATA"].len <= WindowCapacity

(***************************************************************************)
(* Counters that wrap                                                      *)
(***************************************************************************)
\* C39: a message published and not yet consumed is detected by the
\* read-ready check of its consumer, also when the increment of the producer
\* counter wrapped to zero.
C39_DetectedAcrossWrap ==
  /\ shm["PTC_PLATFORM_COUNT"] = Inc(shm["CTP_PLATFORM_COUNT"]) => CoreReadPending(shm)
  /\ shm["CTP_CORE_COUNT"] = Inc(platCnt.readReady)
       => PlatReadPending(shm, platCnt.readReady)

\* the message before the wrap is delivered, echoed and acknowledged: the
\* counters are level at their maximum and the write-ready test of the core
\* holds
C39_DeliveredBeforeWrap ==
  /\ \A c \in Counters : shm[c] = UWordMod - 1
  /\ Len(consumed["ptc"]) = 1
  /\ Len(consumed["ctp"]) = 1
  /\ CoreWriteReady(shm)

\* after the wrap of PTC PLATFORM_COUNT the published line is never seen
C39_LostAfterWrap ==
  /\ shm["PTC_PLATFORM_COUNT"] = 0
  /\ shm["CTP_PLATFORM_COUNT"] = UWordMod - 1
  /\ Len(published["ptc"]) = 2
  /\ corePc = "wait"
  /\ ~CoreReadPending(shm)

(***************************************************************************)
(* The node pointer of the comparison loop                                 *)
(***************************************************************************)
\* C40: whatever list the parser returned, the loop of run never evaluates
\* its test, instr->instr, with instr null.
C40_InstrNeverNull == cmpPc = "loop" => instrIdx <= Len(trace)

\* the loop test is reached with instr null for the empty list, and after the
\* last node of a list without a terminal node
C40_NullOnEmptyList == cmpPc = "loop" /\ trace = <<>> /\ instrIdx = 1

C40_NullPastLastNode ==
  /\ cmpPc = "loop"
  /\ Len(trace) >= 1
  /\ instrIdx = Len(trace) + 1
  /\ Len(checked) = Len(trace)
====
